---- MODULE Spec2Model ----
(***************************************************************************)
(* Model of the textnode typography system.                                *)
(*                                                                         *)
(* Part I   - the font loading state machine of TypographyProvider         *)
(*            (packages/react/src/components/TypographyProvider.tsx) on    *)
(*            top of the core loader (packages/core font loading           *)
(*            utilities: loadFonts, loadFont, loadFontFile, injectCSS,     *)
(*            appendCSS, preloadFonts).                                    *)
(* Part II  - waitForFont, the timer / load-signal race of the core.       *)
(* Part III - the pure functions of the core: the scale engine (modular,   *)
(*            fixed, fluid) and the font metrics / fallback calculator.    *)
(*                                                                         *)
(* The configuration (config.fonts and the props) is fixed when the        *)
(* provider is constructed.  A setFontStates(updater) call is applied to   *)
(* the latest state at once; what the callbacks created by a render see    *)
(* (view, allFontsState) follows only at the next Render.                  *)
(***************************************************************************)
EXTENDS Integers, Sequences, FiniteSets, Bags, TLC

VARIABLES
    browser,          \* isBrowser(): window and document exist
    props,            \* TypographyProvider props: lazyLoad, autoLoad, preload, injectStyles
    mounted,          \* the provider's mount effects have run
    fontStates,       \* useState: the per-font state store (latest state)
    view,             \* fontStates as captured by the closures of the last render
    allFontsState,    \* useMemo(..., [fontStates]): the aggregate of the last render
    requestedFonts,   \* useState: Set of requested font keys
    injectedFontsRef, \* useRef: Set of font keys whose CSS was injected
    appendCount,      \* history: number of appendCSS calls made for each key's block
    style,            \* the <style> elements of document.head, in document order
    preloadLinks,     \* the <link rel=preload> hrefs of the document
    calls,            \* the bag of loadFonts() invocations in flight
    wf,               \* one waitForFont() invocation (Part II)
    calc              \* one call of a pure function of the core (Part III)

vars == <<browser, props, mounted, fontStates, view, allFontsState, requestedFonts,
          injectedFontsRef, appendCount, style, preloadLinks, calls, wf, calc>>

providerVars == <<browser, props, mounted, fontStates, view, allFontsState,
                  requestedFonts, injectedFontsRef, appendCount, style,
                  preloadLinks, calls>>

-----------------------------------------------------------------------------
(* Bounds and the configuration the provider is constructed with.          *)

\* At most this many loadFonts() invocations are in flight at a time.
MaxInFlight == 2

\* Object.keys(config.fonts), in iteration order.
KeyOrder == <<"a", "b">>
FontKeys == {KeyOrder[i] : i \in 1..Len(KeyOrder)}

\* A key that is not in config.fonts (loadFont / requestFont warn and return).
UnknownKey == "zz"
InputKeys == FontKeys \cup {UnknownKey}

\* Object.values(font.files): the file paths of each font.
FontFiles == [a |-> {"a-400.woff2"}, b |-> {"b-400.woff2", "b-700.woff2"}]

\* font.preload of each font.
FontPreload == [a |-> TRUE, b |-> FALSE]

Range(s) == {s[i] : i \in 1..Len(s)}

-----------------------------------------------------------------------------
(* FontLoadingState values written by the provider.                        *)

defaultFontState == [loading |-> FALSE, loaded |-> FALSE, error |-> "null"]

LoadingState == [loading |-> TRUE, loaded |-> FALSE, error |-> "null"]

LoadedState == [loading |-> FALSE, loaded |-> TRUE, error |-> "null"]

ErrorState == [loading |-> FALSE, loaded |-> FALSE, error |-> "Error"]

-----------------------------------------------------------------------------
(* The document's style sink (core injectCSS / appendCSS) and preload      *)
(* links (core preloadFonts).  A style element is [id, text]: id is "" for *)
(* an element without id, text is a sequence of tokens: the CSS block of a *)
(* font key, or the "\n\n" separator.                                      *)

Sep == "\\n\\n"

\* generateFontCSS(fontKey, font): one block per font key.
generateSingleFontCSS(key) == <<key>>

RECURSIVE JoinBlocks(_)
JoinBlocks(keys) ==
    IF Len(keys) = 0 THEN <<>>
    ELSE IF Len(keys) = 1 THEN generateSingleFontCSS(keys[1])
    ELSE generateSingleFontCSS(keys[1]) \o <<Sep>> \o JoinBlocks(Tail(keys))

\* generateAllFontsCSS(fonts): the blocks of all keys joined by "\n\n".
generateAllFontsCSS == JoinBlocks(KeyOrder)

\* The styleId prop of the provider (its default).
styleId == "textnode-styles"

\* document.head without style element.
NoStyle == <<>>

\* document.getElementById(id): the index of the first element with that
\* id, 0 for null.
getElementById(head, id) ==
    LET hits == {i \in 1..Len(head) : head[i].id = id}
    IN  IF id = "" \/ hits = {} THEN 0
        ELSE CHOOSE i \in hits : \A j \in hits : i <= j

\* injectCSS(css, id): replaces the text of the element with that id, or
\* creates a style element (with the id, if one is given) at the end of head.
injectCSS(head, css, id) ==
    LET existing == getElementById(head, id)
    IN  IF ~browser THEN head
        ELSE IF id # "" /\ existing # 0
        THEN [head EXCEPT ![existing].text = css]
        ELSE Append(head, [id |-> id, text |-> css])

\* Mutant of appendCSS: the new block goes before the existing text.
appendCSS_Prepends(head, css, id) ==
    LET existing == getElementById(head, id)
    IN  IF ~browser THEN head
        ELSE IF existing # 0
        THEN [head EXCEPT ![existing].text = css \o <<Sep>> \o @]
        ELSE injectCSS(head, css, id)

\* appendCSS(css, id): existing text + "\n\n" + css, or injectCSS when the
\* element does not exist yet.
appendCSS(head, css, id) ==
    LET existing == getElementById(head, id)
    IN  IF ~browser THEN head
        ELSE IF existing # 0
        THEN [head EXCEPT ![existing].text = @ \o <<Sep>> \o css]
        ELSE injectCSS(head, css, id)

\* preloadFonts(fonts): a link per file of every font marked preload,
\* deduplicated by href (injectPreloadLink).
preloadFonts(links) ==
    IF ~browser THEN links
    ELSE links \cup UNION {FontFiles[k] : k \in {x \in FontKeys : FontPreload[x]}}

-----------------------------------------------------------------------------
(* Core loadFonts(fonts, onProgress): one invocation in flight.            *)
(*   origin  who called it: "loadFont", "reload", "request" (the           *)
(*           provider's loadFont(key), reached directly, through           *)
(*           reloadFonts or through requestFont) or "auto" (loadAllFonts)  *)
(*   fonts   the keys of the fonts argument                                *)
(*   result  per key, "none" while the key's callback is pending, "faces"  *)
(*           after result[key] = await loadFont(font), "empty" after the   *)
(*           catch branch wrote result[key] = []                           *)
(*   loaded  the loaded array (keys pushed in completion order)            *)
(*   progress  the invocations of onProgress so far, each the loaded array *)
(*           as it was passed; empty when the caller passed no callback    *)

\* isFontFaceAPISupported(): outside a browser loadFontFile returns null at
\* once and no file load is started.
isFontFaceAPISupported == browser

NewCall(origin, keys) ==
    [origin |-> origin,
     fonts  |-> keys,
     result |-> [k \in keys |-> "none"],
     loaded |-> <<>>,
     progress |-> <<>>]

\* The promise returned by loadFonts: every key's callback catches its own
\* failure, so Promise.all never sees a rejection.
loadFontsOutcome(call) == "fulfilled"

AllKeysSettled(call) == \A k \in call.fonts : call.result[k] # "none"

-----------------------------------------------------------------------------
(* The updaters the provider hands to setFontStates.                       *)

\* Mutant of MarkLoading: the loading mark spreads the key's previous state
\* and only sets loading, so a loaded key stays loaded while it reloads.
MarkLoading_KeepsLoaded(prev, key) == [prev EXCEPT ![key].loading = TRUE]

\* loadFont: (prev) => ({...prev, [fontKey]: {loading: true, ...}})
MarkLoading(prev, key) == [prev EXCEPT ![key] = LoadingState]

\* Mutant of MarkLoaded: the success update spreads the key's previous state
\* and only sets loaded, so loading stays true.
MarkLoaded_KeepsLoading(prev, key) == [prev EXCEPT ![key].loaded = TRUE]

\* loadFont, after the await: {loading: false, loaded: true, error: null}
MarkLoaded(prev, key) == [prev EXCEPT ![key] = LoadedState]

\* loadFont, catch branch: {loading: false, loaded: false, error}
MarkFailed(prev, key) == [prev EXCEPT ![key] = ErrorState]

\* loadAllFonts: every key of config.fonts is marked loading
MarkAllLoading(prev) == [k \in DOMAIN prev |-> IF k \in FontKeys THEN LoadingState ELSE prev[k]]

\* Mutant of MarkProgress: the progress update rewrites every key, marking
\* the keys that are not in the loaded array as loading.
MarkProgress_ResetsOthers(prev, loaded) ==
    [k \in DOMAIN prev |-> IF k \in Range(loaded) THEN LoadedState ELSE LoadingState]

\* loadAllFonts, onProgress(loaded): every key of the loaded array is marked loaded
MarkProgress(prev, loaded) ==
    [k \in DOMAIN prev |-> IF k \in Range(loaded) THEN LoadedState ELSE prev[k]]

\* Mutant of AfterLoadFonts: the state is written only when the font's faces
\* came back, and a failed load is left as it is.
AfterLoadFonts_SkipsFailure(prev, call, key) ==
    IF call.result[key] = "faces" THEN MarkLoaded(prev, key) ELSE prev

\* The continuation of the provider's loadFont once loadFonts has settled.
AfterLoadFonts(prev, call, key) ==
    IF loadFontsOutcome(call) = "rejected" THEN MarkFailed(prev, key)
    ELSE MarkLoaded(prev, key)

\* Mutant of AllFontsStateOf: layoutStable computed from the loading list.
AllFontsStateOf_StableWhenIdle(states) ==
    LET loadedFonts  == SelectSeq(KeyOrder, LAMBDA k : states[k].loaded)
        loadingFonts == SelectSeq(KeyOrder, LAMBDA k : states[k].loading)
        failedFonts  == SelectSeq(KeyOrder, LAMBDA k : states[k].error # "null")
    IN  [allLoaded    |-> Len(loadedFonts) = Len(KeyOrder) /\ Len(loadingFonts) = 0,
         loadedFonts  |-> loadedFonts,
         loadingFonts |-> loadingFonts,
         failedFonts  |-> failedFonts,
         layoutStable |-> Len(loadingFonts) = 0]

\* allFontsState: the aggregate computed from fontStates.
AllFontsStateOf(states) ==
    LET loadedFonts  == SelectSeq(KeyOrder, LAMBDA k : states[k].loaded)
        loadingFonts == SelectSeq(KeyOrder, LAMBDA k : states[k].loading)
        failedFonts  == SelectSeq(KeyOrder, LAMBDA k : states[k].error # "null")
    IN  [allLoaded    |-> Len(loadedFonts) = Len(KeyOrder) /\ Len(loadingFonts) = 0,
         loadedFonts  |-> loadedFonts,
         loadingFonts |-> loadingFonts,
         failedFonts  |-> failedFonts,
         layoutStable |-> Len(loadedFonts) = Len(KeyOrder)]

-----------------------------------------------------------------------------
(* The synchronous part of the provider's loadFont(fontKey): the loading   *)
(* mark and the start of loadFonts({[fontKey]: font}).  st is the pair of  *)
(* the state store and the calls in flight.                                *)

loadFontStart(st, key, origin) ==
    IF key \notin FontKeys THEN st
    ELSE [fs    |-> MarkLoading(st.fs, key),
          calls |-> st.calls (+) SetToBag({NewCall(origin, {key})})]

\* reloadFonts: fontKeys.map(loadFont) calls loadFont for every key in order.
RECURSIVE loadFontEach(_, _, _)
loadFontEach(st, keys, origin) ==
    IF Len(keys) = 0 THEN st
    ELSE loadFontEach(loadFontStart(st, keys[1], origin), Tail(keys), origin)

Here == [fs |-> fontStates, calls |-> calls]

Room(n) == BagCardinality(calls) + n <= MaxInFlight

-----------------------------------------------------------------------------
(* No waitForFont() has been called.                                       *)
WfIdle ==
    [pc |-> "idle", fontString |-> <<>>, timeout |-> 0, signal |-> "none",
     timer |-> "none", now |-> 0, first |-> "none", value |-> "none",
     settledAt |-> 0]

\* No pure function of the core has been called.
CalcIdle == [pc |-> "idle"]

-----------------------------------------------------------------------------
\* The props defaults (autoLoad, preload, injectStyles true, lazyLoad false).
DefaultProps == [lazyLoad |-> FALSE, autoLoad |-> TRUE, preload |-> TRUE,
                 injectStyles |-> TRUE]

\* The props the provider is mounted with: the defaults, the three mount
\* effects switched off, lazy mode, and lazy mode without style injection.
PropsChoices ==
    {DefaultProps,
     [DefaultProps EXCEPT !.autoLoad = FALSE, !.preload = FALSE,
                          !.injectStyles = FALSE],
     [DefaultProps EXCEPT !.lazyLoad = TRUE],
     [DefaultProps EXCEPT !.lazyLoad = TRUE, !.injectStyles = FALSE]}

Init ==
    /\ browser \in BOOLEAN
    /\ props \in PropsChoices
    /\ mounted = FALSE
    /\ fontStates = [k \in FontKeys |-> defaultFontState]
    /\ view = fontStates
    /\ allFontsState = AllFontsStateOf(fontStates)
    /\ requestedFonts = {}
    /\ injectedFontsRef = {}
    /\ appendCount = [k \in FontKeys |-> 0]
    /\ style = NoStyle
    /\ preloadLinks = {}
    /\ calls = EmptyBag
    /\ wf = WfIdle
    /\ calc = CalcIdle

\* The three mount effects of TypographyProvider, in declaration order.
MountInjects == browser /\ props.injectStyles /\ ~props.lazyLoad
MountPreloads == browser /\ props.preload /\ ~props.lazyLoad
\* Mutant of MountLoads: the auto-load effect does not look at lazyLoad.
MountLoads_IgnoresLazy == browser /\ props.autoLoad

MountLoads == browser /\ props.autoLoad /\ ~props.lazyLoad

Mount ==
    /\ ~mounted
    /\ mounted' = TRUE
    /\ style' = IF MountInjects THEN injectCSS(style, generateAllFontsCSS, styleId) ELSE style
    /\ preloadLinks' = IF MountPreloads THEN preloadFonts(preloadLinks) ELSE preloadLinks
    /\ IF MountLoads
       THEN /\ fontStates' = MarkAllLoading(fontStates)
            /\ calls' = calls (+) SetToBag({NewCall("auto", FontKeys)})
       ELSE UNCHANGED <<fontStates, calls>>
    /\ UNCHANGED <<browser, props, view, allFontsState, requestedFonts,
                   injectedFontsRef, appendCount, wf, calc>>

\* A render of the provider: the closures and the memo see the latest state.
Render ==
    /\ mounted
    /\ view # fontStates
    /\ view' = fontStates
    /\ allFontsState' = AllFontsStateOf(fontStates)
    /\ UNCHANGED <<browser, props, mounted, fontStates, requestedFonts,
                   injectedFontsRef, appendCount, style, preloadLinks, calls, wf, calc>>

\* context.loadFont(fontKey)
LoadFont(key) ==
    /\ mounted
    /\ Room(1)
    /\ LET st == loadFontStart(Here, key, "loadFont")
       IN  fontStates' = st.fs /\ calls' = st.calls
    /\ UNCHANGED <<browser, props, mounted, view, allFontsState, requestedFonts,
                   injectedFontsRef, appendCount, style, preloadLinks, wf, calc>>

\* context.reloadFonts()
ReloadFonts ==
    /\ mounted
    /\ Room(Len(KeyOrder))
    /\ LET st == loadFontEach(Here, KeyOrder, "reload")
       IN  fontStates' = st.fs /\ calls' = st.calls
    /\ UNCHANGED <<browser, props, mounted, view, allFontsState, requestedFonts,
                   injectedFontsRef, appendCount, style, preloadLinks, wf, calc>>

\* requestFont, CSS already injected: load again when the state captured by
\* the closure shows the key neither loaded nor loading.
RequestNeedsLoad(key) == ~view[key].loaded /\ ~view[key].loading

\* Mutant of AlreadyInjected: the check reads the rendered state of the key
\* instead of the ref.
AlreadyInjected_ByLoaded(key) == view[key].loaded

\* requestFont: is this key handled as already requested?
AlreadyInjected(key) == key \in injectedFontsRef

\* context.requestFont(fontKey)
RequestFont(key) ==
    /\ mounted
    /\ Room(1)
    /\ IF key \notin FontKeys
       THEN UNCHANGED <<fontStates, calls, requestedFonts, injectedFontsRef,
                        appendCount, style>>
       ELSE IF AlreadyInjected(key)
       THEN /\ LET st == IF RequestNeedsLoad(key)
                         THEN loadFontStart(Here, key, "request")
                         ELSE Here
               IN  fontStates' = st.fs /\ calls' = st.calls
            /\ UNCHANGED <<requestedFonts, injectedFontsRef, appendCount, style>>
       ELSE /\ injectedFontsRef' = injectedFontsRef \cup {key}
            /\ requestedFonts' = requestedFonts \cup {key}
            /\ IF browser /\ props.injectStyles
               THEN /\ style' = appendCSS(style, generateSingleFontCSS(key), styleId)
                    /\ appendCount' = [appendCount EXCEPT ![key] = @ + 1]
               ELSE UNCHANGED <<style, appendCount>>
            /\ LET st == loadFontStart(Here, key, "request")
               IN  fontStates' = st.fs /\ calls' = st.calls
    /\ UNCHANGED <<browser, props, mounted, view, allFontsState, preloadLinks, wf, calc>>

-----------------------------------------------------------------------------
(* The asynchronous steps of a loadFonts invocation in flight.             *)

InFlight == BagToSet(calls)

Replace(call, new) == (calls (-) SetToBag({call})) (+) SetToBag({new})

Pending(call, k) ==
    /\ call \in InFlight
    /\ k \in call.fonts
    /\ call.result[k] = "none"

\* Mutant of FontFailed: the catch branch also pushes the key and reports
\* progress.
FontFailed_ReportsProgress(call, k) ==
    /\ Pending(call, k)
    /\ isFontFaceAPISupported
    /\ calls' = Replace(call, [call EXCEPT
                     !.result[k] = "empty",
                     !.loaded = Append(@, k),
                     !.progress = IF call.origin = "auto"
                                  THEN Append(@, Append(call.loaded, k)) ELSE @])
    /\ UNCHANGED <<browser, props, mounted, fontStates, view, allFontsState,
                   requestedFonts, injectedFontsRef, appendCount, style,
                   preloadLinks, wf, calc>>

\* A font.load() of key k rejects: loadFontFile rethrows, loadFont(font)
\* rejects and the key's callback catches it: result[key] = [].
FontFailed(call, k) ==
    /\ Pending(call, k)
    /\ isFontFaceAPISupported
    /\ calls' = Replace(call, [call EXCEPT !.result[k] = "empty"])
    /\ UNCHANGED <<browser, props, mounted, fontStates, view, allFontsState,
                   requestedFonts, injectedFontsRef, appendCount, style,
                   preloadLinks, wf, calc>>

\* onProgress?.(loaded, total): only loadAllFonts passes a callback.
onProgress(prev, call, loaded) ==
    IF call.origin = "auto" THEN MarkProgress(prev, loaded) ELSE prev

\* loadFont(font) returned for key k (every file of the font loaded, or no
\* FontFace API): result[key] = faces, loaded.push(key),
\* onProgress?.(loaded, total).
FontLoaded(call, k) ==
    /\ Pending(call, k)
    /\ LET loaded == Append(call.loaded, k)
       IN  /\ calls' = Replace(call, [call EXCEPT
                                 !.result[k] = "faces",
                                 !.loaded = loaded,
                                 !.progress = IF call.origin = "auto"
                                              THEN Append(@, loaded) ELSE @])
           /\ fontStates' = onProgress(fontStates, call, loaded)
    /\ UNCHANGED <<browser, props, mounted, view, allFontsState, requestedFonts,
                   injectedFontsRef, appendCount, style, preloadLinks, wf, calc>>

\* Promise.all resolves, loadFonts returns, and its caller continues: the
\* provider's loadFont writes the key's final state, loadAllFonts only
\* leaves its try block.
LoadFontsSettled(call) ==
    /\ call \in InFlight
    /\ AllKeysSettled(call)
    /\ fontStates' = IF call.origin = "auto" THEN fontStates
                     ELSE AfterLoadFonts(fontStates, call,
                                         CHOOSE k \in call.fonts : TRUE)
    /\ calls' = calls (-) SetToBag({call})
    /\ UNCHANGED <<browser, props, mounted, view, allFontsState, requestedFonts,
                   injectedFontsRef, appendCount, style, preloadLinks, wf, calc>>

Next ==
    \/ Mount
    \/ Render
    \/ \E key \in InputKeys : LoadFont(key)
    \/ ReloadFonts
    \/ \E key \in InputKeys : RequestFont(key)
    \/ \E call \in InFlight, k \in FontKeys : FontLoaded(call, k)
    \/ \E call \in InFlight, k \in FontKeys : FontFailed(call, k)
    \/ \E call \in InFlight : LoadFontsSettled(call)

Spec == Init /\ [][Next]_vars

ExplicitOrigins == {"loadFont", "reload", "request"}

FontSettles(o, k) ==
    \E call \in InFlight :
        call.origin = o /\ (FontLoaded(call, k) \/ FontFailed(call, k))

CallSettles(o, k) ==
    \E call \in InFlight :
        call.origin = o /\ k \in call.fonts /\ LoadFontsSettled(call)

\* The code's scheduling: every font load that reloadFonts() started
\* resolves or rejects, and the promise continuations that follow it run.
\* Nothing is assumed of the other loads.
Fairness ==
    /\ \A k \in FontKeys : WF_vars(FontSettles("reload", k))
    /\ \A k \in FontKeys : WF_vars(CallSettles("reload", k))

LiveSpec == Init /\ [][Next]_vars /\ Fairness

-----------------------------------------------------------------------------
(* Part I: properties of the provider's font loading state machine.        *)

Idle(s) == ~s.loading /\ ~s.loaded /\ s.error = "null"

Settled(s) == ~s.loading /\ (s.loaded \/ s.error # "null")

\* call is a loadFonts invocation started by the step.
Started(call) ==
    /\ call \in BagToSet(calls')
    /\ CopiesIn(call, calls') > CopiesIn(call, calls)
    /\ \A k \in call.fonts : call.result[k] = "none"

\* The step starts a load of key k through an explicit loadFont(k),
\* reloadFonts() or requestFont(k).
ExplicitStart(k) ==
    \E o \in ExplicitOrigins : Started(NewCall(o, {k}))

\* The text of the provider's style element, empty when there is none.
StyleText(head) ==
    IF getElementById(head, styleId) = 0 THEN <<>>
    ELSE head[getElementById(head, styleId)].text

CssIn(k, head) == \E i \in 1..Len(StyleText(head)) : StyleText(head)[i] = k

CssCount(k, head) ==
    Cardinality({i \in 1..Len(StyleText(head)) : StyleText(head)[i] = k})

\* C1: in every reachable state of the store no font key has loading = true
\* and loaded = true at the same time.
C1_NeverLoadingAndLoaded ==
    \A k \in FontKeys : ~(fontStates[k].loading /\ fontStates[k].loaded)

\* C1 witness: loads overlap; one key is loaded while another one is loading.
C1_Witness ==
    \E k, j \in FontKeys :
        /\ fontStates[k].loaded
        /\ fontStates[j].loading
        /\ BagCardinality(calls) >= 1

\* C2: when the load of a font started through loadFont(key) or
\* reloadFonts() fails, the key settles to loading = false, loaded = false,
\* error non-null (in failedFonts, not in loadedFonts).
C2_FailedLoadSettlesInError ==
    [][\A call \in InFlight, k \in FontKeys :
          (/\ call.origin \in {"loadFont", "reload"}
           /\ call.fonts = {k}
           /\ call.result[k] = "empty"
           /\ LoadFontsSettled(call))
          => (/\ ~fontStates'[k].loading
              /\ ~fontStates'[k].loaded
              /\ fontStates'[k].error # "null")]_vars

\* C3: after reloadFonts(), provided every load resolves or rejects, every
\* key reaches loading = false with loaded = true or error non-null.
C3_ReloadSettlesEveryKey ==
    \A k \in FontKeys :
        (\E call \in InFlight : call.origin = "reload" /\ call.fonts = {k})
            ~> Settled(fontStates[k])

\* C3 witness: a load started by reloadFonts() has failed and its key is
\* still loading.
C3_Witness ==
    \E call \in InFlight, k \in FontKeys :
        /\ call.origin = "reload"
        /\ call.fonts = {k}
        /\ call.result[k] = "empty"
        /\ fontStates[k].loading

\* C4: the state update made on the completion of key k's load changes no
\* other key's entry.
C4_CompletionIsKeyScoped ==
    [][\A call \in InFlight, k \in FontKeys :
          (\/ FontLoaded(call, k)
           \/ FontFailed(call, k)
           \/ (call.fonts = {k} /\ LoadFontsSettled(call)))
          => \A j \in FontKeys \ {k} : fontStates'[j] = fontStates[j]]_vars

\* C5: a key's state only moves not-requested -> loading -> (loaded | error),
\* and a loaded or failed key becomes loading again only in a step that is an
\* explicit loadFont(key), reloadFonts() or requestFont(key).
C5_TransitionsOfKey ==
    [][\A k \in FontKeys :
          fontStates'[k] # fontStates[k] =>
              \/ Idle(fontStates[k]) /\ fontStates'[k].loading
              \/ fontStates[k].loading /\ Settled(fontStates'[k])
              \/ Settled(fontStates[k]) /\ fontStates'[k].loading /\ ExplicitStart(k)]_vars

\* C5 witness: a key that was loaded at the last render is loading again.
C5_Witness ==
    \E k \in FontKeys : view[k].loaded /\ fontStates[k].loading

\* C6: the aggregate is a function of the per-font states of the render:
\* allLoaded iff #loaded = total and #loading = 0, layoutStable iff
\* #loaded = total, and the three lists are exactly the keys with
\* loaded, loading and error non-null.
C6_AggregateIsDerived ==
    LET loadedKeys  == {k \in FontKeys : view[k].loaded}
        loadingKeys == {k \in FontKeys : view[k].loading}
        failedKeys  == {k \in FontKeys : view[k].error # "null"}
        IsListOf(list, set) == Range(list) = set /\ Len(list) = Cardinality(set)
    IN  /\ allFontsState.allLoaded <=>
              (Cardinality(loadedKeys) = Cardinality(FontKeys) /\ loadingKeys = {})
        /\ allFontsState.layoutStable <=>
              (Cardinality(loadedKeys) = Cardinality(FontKeys))
        /\ IsListOf(allFontsState.loadedFonts, loadedKeys)
        /\ IsListOf(allFontsState.loadingFonts, loadingKeys)
        /\ IsListOf(allFontsState.failedFonts, failedKeys)

\* C6 witness: a render has seen one key loaded and the other one loading.
C6_Witness ==
    /\ Len(allFontsState.loadedFonts) = 1
    /\ Len(allFontsState.loadingFonts) = 1
    /\ ~allFontsState.layoutStable

C8_CssAppendedAtMostOnce ==
    \A k \in FontKeys :
        /\ appendCount[k] <= 1
        /\ CssCount(k, style) <= appendCount[k] + (IF MountInjects THEN 1 ELSE 0)

\* C8 witness: a key's CSS was appended and requestFont was called again for
\* it while its first load was in flight.
C8_Witness ==
    \E k \in FontKeys :
        /\ appendCount[k] = 1
        /\ CopiesIn(NewCall("request", {k}), calls) >= 2

\* C9: a requestFont(key) for a key whose CSS is already injected starts a
\* new load only if the key is at that moment neither loaded nor loading.
C9_RequestStartsNoSecondLoad ==
    [][\A k \in FontKeys :
          (k \in injectedFontsRef /\ Started(NewCall("request", {k})))
              => (~fontStates[k].loaded /\ ~fontStates[k].loading)]_vars



-----------------------------------------------------------------------------
(* Part II: core waitForFont(familyName, weight, timeout).                 *)
(*                                                                         *)
(* wf.pc         "idle", "pending", "resolved" or "rejected": the promise   *)
(*               waitForFont returned                                      *)
(* wf.fontString the descriptor handed to document.fonts.load              *)
(* wf.timeout    the delay of the timer, in ms                             *)
(* wf.signal     document.fonts.load(fontString).then(() => true):         *)
(*               "pending", "fulfilled" or "rejected"                      *)
(* wf.timer      the setTimeout: "armed" or "fired"                        *)
(* wf.now        ms elapsed since the call                                 *)
(* wf.first      which of signal and timer finished first                  *)
(* wf.value      the value the promise resolved with                       *)
(* wf.settledAt  wf.now when the promise settled                           *)

\* timeout: number = 3000
DefaultTimeout == 3000

\* The clock is followed ms by ms up to MaxTicks, and may jump to the time
\* the timer is due.
MaxTicks == 2

FamilyNames == {"Inter", "In\"ter"}

\* weight?: FontWeight ("" stands for an omitted weight)
Weights == {"", "400"}

\* timeout argument, when given
Timeouts == 0..MaxTicks

\* weight ? `${weight} 16px "${familyName}"` : `16px "${familyName}"`
FontString(familyName, weight) ==
    IF weight # "" THEN <<weight, "16px", "\"", familyName, "\"">>
    ELSE <<"16px", "\"", familyName, "\"">>

\* document.fonts.load parses the descriptor: a family name that holds a
\* double quote ends the quoted family early and the descriptor is no font
\* shorthand (the load is rejected with a SyntaxError).
ValidFontString(fontString) ==
    fontString[Len(fontString) - 1] \in {"Inter"}

\* waitForFont called; given is false when the timeout argument is omitted.
WaitForFont(familyName, weight, given, timeout) ==
    /\ wf.pc = "idle"
    /\ IF ~browser
       THEN wf' = [wf EXCEPT !.pc = "resolved", !.value = "false"]
       ELSE wf' = [wf EXCEPT !.pc = "pending",
                             !.fontString = FontString(familyName, weight),
                             !.timeout = IF given THEN timeout ELSE DefaultTimeout,
                             !.signal = "pending",
                             !.timer = "armed"]
    /\ UNCHANGED <<providerVars, calc>>

\* Promise.race: the promise settles with the first of its inputs to settle;
\* a later one changes nothing.
RaceResolve(w, who, value) ==
    IF w.pc = "pending"
    THEN [w EXCEPT !.pc = "resolved", !.value = value, !.first = who,
                   !.settledAt = w.now]
    ELSE w

RaceReject(w, who) ==
    IF w.pc = "pending"
    THEN [w EXCEPT !.pc = "rejected", !.first = who, !.settledAt = w.now]
    ELSE w

\* document.fonts.load(fontString) resolves; .then(() => true).
SignalFulfilled ==
    /\ wf.signal = "pending"
    /\ ValidFontString(wf.fontString)
    /\ wf' = RaceResolve([wf EXCEPT !.signal = "fulfilled"], "signal", "true")
    /\ UNCHANGED <<providerVars, calc>>

\* document.fonts.load(fontString) rejects (a font face failed to load, or
\* the descriptor is invalid): the .then promise rejects with it.
SignalRejected ==
    /\ wf.signal = "pending"
    /\ wf' = RaceReject([wf EXCEPT !.signal = "rejected"], "signal")
    /\ UNCHANGED <<providerVars, calc>>

\* setTimeout(() => resolve(false), timeout) fires.
TimerFires ==
    /\ wf.timer = "armed"
    /\ wf.now >= wf.timeout
    /\ wf' = RaceResolve([wf EXCEPT !.timer = "fired"], "timer", "false")
    /\ UNCHANGED <<providerVars, calc>>

\* Time passes; an armed timer fires when it is due.
Tick ==
    /\ wf.pc # "idle"
    /\ \E t \in {wf.now + 1, wf.timeout} :
          /\ t > wf.now
          /\ t <= MaxTicks \/ t = wf.timeout
          /\ wf.timer = "armed" => t <= wf.timeout
          /\ wf' = [wf EXCEPT !.now = t]
    /\ UNCHANGED <<providerVars, calc>>

\* waitForFont does not touch the provider, which is left unmounted.
WaitInit ==
    /\ browser \in BOOLEAN
    /\ props = DefaultProps
    /\ mounted = FALSE
    /\ fontStates = [k \in FontKeys |-> defaultFontState]
    /\ view = fontStates
    /\ allFontsState = AllFontsStateOf(fontStates)
    /\ requestedFonts = {}
    /\ injectedFontsRef = {}
    /\ appendCount = [k \in FontKeys |-> 0]
    /\ style = NoStyle
    /\ preloadLinks = {}
    /\ calls = EmptyBag
    /\ wf = WfIdle
    /\ calc = CalcIdle

WaitNext ==
    \/ \E f \in FamilyNames, w \in Weights, given \in BOOLEAN, t \in Timeouts :
          WaitForFont(f, w, given, t)
    \/ SignalFulfilled
    \/ SignalRejected
    \/ TimerFires
    \/ Tick

WaitSpec == WaitInit /\ [][WaitNext]_vars

\* C10: waitForFont always settles with a boolean and never later than the
\* timeout: true when the load signal completes before the timer fires,
\* false when the timer fires first, false at once outside a browser; the
\* one that finishes second has no effect.
C10_SettlesWithBooleanInTime ==
    /\ wf.pc \in {"resolved", "rejected"} =>
          /\ wf.pc = "resolved"
          /\ wf.value \in {"true", "false"}
          /\ wf.settledAt <= wf.timeout
    /\ (wf.signal # "pending" /\ wf.signal # "none" /\ wf.first = "signal") =>
          (wf.pc = "resolved" /\ wf.value = "true")
    /\ wf.first = "timer" => (wf.pc = "resolved" /\ wf.value = "false")
    /\ wf.timer = "fired" => wf.pc = "resolved"
    /\ (~browser /\ wf.pc # "idle") => (wf.pc = "resolved" /\ wf.value = "false")


-----------------------------------------------------------------------------
(* Part III: the pure functions of the core.                               *)
(*                                                                         *)
(* JavaScript values.  A number is an exact fraction n/d in lowest terms   *)
(* (d > 0), NaN, or +/-Infinity (n = 1 or -1); "undef" is undefined and    *)
(* "str" a string that is no numeral.  Every value has the same three      *)
(* fields so that values of different kinds can be compared.               *)

Abs(x) == IF x < 0 THEN -x ELSE x

RECURSIVE Gcd(_, _)
Gcd(a, b) == IF b = 0 THEN a ELSE Gcd(b, a % b)

Q(n, d) ==
    LET g == Gcd(Abs(n), d)
    IN  [k |-> "num", n |-> n \div g, d |-> d \div g]

N(i) == Q(i, 1)

NaN == [k |-> "nan", n |-> 0, d |-> 1]
\* Infinity under the sign s (1 or -1)
JInf(s) == [k |-> "inf", n |-> (IF s > 0 THEN 1 ELSE -1), d |-> 1]
PosInf == JInf(1)
Undefined == [k |-> "undef", n |-> 0, d |-> 1]
Text == [k |-> "str", n |-> 0, d |-> 1]

\* typeof v === 'number'
IsNumber(v) == v.k \in {"num", "nan", "inf"}

\* ToNumber: undefined and a string that is no numeral convert to NaN.
ToNumber(v) == IF IsNumber(v) THEN v ELSE NaN

Sgn(v) == IF v.n > 0 THEN 1 ELSE IF v.n < 0 THEN -1 ELSE 0

\* a * b
JMul(x, y) ==
    LET a == ToNumber(x)
        b == ToNumber(y)
    IN  IF a.k = "nan" \/ b.k = "nan" THEN NaN
        ELSE IF a.k = "inf" \/ b.k = "inf"
             THEN IF Sgn(a) = 0 \/ Sgn(b) = 0 THEN NaN ELSE JInf(Sgn(a) * Sgn(b))
        ELSE Q(a.n * b.n, a.d * b.d)

\* a / b (a zero divisor is +0)
JDiv(x, y) ==
    LET a == ToNumber(x)
        b == ToNumber(y)
    IN  IF a.k = "nan" \/ b.k = "nan" THEN NaN
        ELSE IF a.k = "inf"
             THEN IF b.k = "inf" THEN NaN
                  ELSE JInf(Sgn(a) * (IF Sgn(b) < 0 THEN -1 ELSE 1))
        ELSE IF b.k = "inf" THEN N(0)
        ELSE IF b.n = 0 THEN (IF a.n = 0 THEN NaN ELSE JInf(Sgn(a)))
        ELSE Q(a.n * b.d * Sgn(b), a.d * Abs(b.n))

\* a + b
JAdd(x, y) ==
    LET a == ToNumber(x)
        b == ToNumber(y)
    IN  IF a.k = "nan" \/ b.k = "nan" THEN NaN
        ELSE IF a.k = "inf"
             THEN IF b.k = "inf" /\ Sgn(a) # Sgn(b) THEN NaN ELSE a
        ELSE IF b.k = "inf" THEN b
        ELSE Q(a.n * b.d + b.n * a.d, a.d * b.d)

JNeg(x) ==
    LET a == ToNumber(x)
    IN  IF a.k = "nan" THEN NaN
        ELSE IF a.k = "inf" THEN JInf(-Sgn(a))
        ELSE Q(-a.n, a.d)

\* a - b
JSub(x, y) == JAdd(x, JNeg(y))

\* a < b (false when either side is NaN)
JLess(x, y) ==
    LET a == ToNumber(x)
        b == ToNumber(y)
    IN  IF a.k = "nan" \/ b.k = "nan" THEN FALSE
        ELSE IF a.k = "inf" THEN Sgn(a) < 0 /\ ~(b.k = "inf" /\ Sgn(b) < 0)
        ELSE IF b.k = "inf" THEN Sgn(b) > 0
        ELSE a.n * b.d < b.n * a.d

\* a <= b
JLeq(x, y) ==
    LET a == ToNumber(x)
        b == ToNumber(y)
    IN  a.k # "nan" /\ b.k # "nan" /\ ~JLess(b, a)

\* Math.abs
MathAbs(x) ==
    LET a == ToNumber(x)
    IN  IF a.k = "nan" THEN NaN
        ELSE IF a.k = "inf" THEN PosInf
        ELSE Q(Abs(a.n), a.d)

\* Math.min(a, b)
MathMin(x, y) ==
    LET a == ToNumber(x)
        b == ToNumber(y)
    IN  IF a.k = "nan" \/ b.k = "nan" THEN NaN
        ELSE IF JLess(b, a) THEN b ELSE a

\* Math.round: the nearest integer, a tie going up.
MathRound(x) ==
    LET a == ToNumber(x)
    IN  IF a.k # "num" THEN a
        ELSE N((2 * a.n + a.d) \div (2 * a.d))

\* Math.pow(x, e) for an integer e; Math.pow(x, 0) is 1 for every x.
RECURSIVE MathPow(_, _)
MathPow(x, e) ==
    IF e = 0 THEN N(1)
    ELSE IF e < 0 THEN JDiv(N(1), MathPow(x, -e))
    ELSE JMul(x, MathPow(x, e - 1))

\* Math.round(v * 100) / 100
RoundTo2(v) == JDiv(MathRound(JMul(v, N(100))), N(100))

-----------------------------------------------------------------------------
(* The scale engine: modular scale.                                        *)

\* DEFAULT_STEP_NAMES
DEFAULT_STEP_NAMES == <<"xs", "sm", "base", "lg", "xl", "2xl", "3xl", "4xl", "5xl", "6xl">>

StepIndex(name) == CHOOSE i \in 1..Len(DEFAULT_STEP_NAMES) : DEFAULT_STEP_NAMES[i] = name

\* calculateModularStep(base, ratio, step) = base * Math.pow(ratio, step)
calculateModularStep(base, ratio, step) == JMul(base, MathPow(ratio, step))

\* Mutant of calculateModularScale: the step of a name is 2 - index, so the
\* exponents run from 2 down to -7.
calculateModularScale_StepsReversed(config) ==
    [name \in Range(DEFAULT_STEP_NAMES) |->
        RoundTo2(calculateModularStep(config.base, config.ratio, 3 - StepIndex(name)))]

\* calculateModularScale(config): forEach((name, index) => step = index - 2),
\* the index counted from 0.
calculateModularScale(config) ==
    [name \in Range(DEFAULT_STEP_NAMES) |->
        RoundTo2(calculateModularStep(config.base, config.ratio, StepIndex(name) - 3))]

\* calculateModularScaleRange(base, ratio, stepsUp, stepsDown): the steps
\* below the base from -stepsDown to -1, the base, the steps 1..stepsUp,
\* every value rounded to 2 decimals.
calculateModularScaleRange(base, ratio, stepsUp, stepsDown) ==
    LET below  == [i \in 1..stepsDown |->
                      calculateModularStep(base, ratio, -(stepsDown + 1 - i))]
        above  == [i \in 1..stepsUp |-> calculateModularStep(base, ratio, i)]
        values == below \o <<base>> \o above
    IN  [i \in 1..Len(values) |-> RoundTo2(values[i])]

-----------------------------------------------------------------------------
(* The scale engine: fixed scale.  config.values is Undefined or an object *)
(* with its Object.entries, a sequence of <<key, value>> pairs.            *)

Obj(entries) == [k |-> "obj", entries |-> entries]

\* What a call comes to: a returned value, or an exception.
Return(v) == [threw |-> FALSE, value |-> v]
Throw(e) == [threw |-> TRUE, value |-> e]

NoKeys == [k \in {} |-> Undefined]

\* Mutant of FixedScaleLoop: the test is value >= 0.
RECURSIVE FixedScaleLoop_KeepsZero(_, _)
FixedScaleLoop_KeepsZero(entries, scale) ==
    IF Len(entries) = 0 THEN scale
    ELSE LET key   == entries[1][1]
             value == entries[1][2]
         IN  IF IsNumber(value) /\ JLeq(N(0), value)
             THEN FixedScaleLoop_KeepsZero(Tail(entries), (key :> value) @@ scale)
             ELSE FixedScaleLoop_KeepsZero(Tail(entries), scale)

\* for (const [key, value] of entries)
\*   if (typeof value === 'number' && value > 0) scale[key] = value;
RECURSIVE FixedScaleLoop(_, _)
FixedScaleLoop(entries, scale) ==
    IF Len(entries) = 0 THEN scale
    ELSE LET key   == entries[1][1]
             value == entries[1][2]
         IN  IF IsNumber(value) /\ JLess(N(0), value)
             THEN FixedScaleLoop(Tail(entries), (key :> value) @@ scale)
             ELSE FixedScaleLoop(Tail(entries), scale)

\* calculateFixedScale(config): Object.entries(undefined) throws a TypeError.
calculateFixedScale(config) ==
    IF config.values.k = "undef" THEN Throw("TypeError")
    ELSE Return(FixedScaleLoop(config.values.entries, NoKeys))

\* DEFAULT_FIXED_SCALE_VALUES, as getDefaultFixedScale() copies them.
DEFAULT_FIXED_SCALE_VALUES ==
    Obj(<<<<"xs", N(12)>>, <<"sm", N(14)>>, <<"base", N(16)>>, <<"lg", N(18)>>,
          <<"xl", N(20)>>, <<"2xl", N(24)>>, <<"3xl", N(30)>>, <<"4xl", N(36)>>,
          <<"5xl", N(48)>>, <<"6xl", N(60)>>>>)

\* A ScaleConfig: every field is present, Undefined when the object has none.
ScaleConfig(type, fields) ==
    fields @@ [type |-> type, base |-> Undefined, ratio |-> Undefined,
               values |-> Undefined, minViewport |-> Undefined,
               maxViewport |-> Undefined, minScale |-> Undefined,
               maxScale |-> Undefined]

getDefaultFixedScale == ScaleConfig("fixed", [values |-> DEFAULT_FIXED_SCALE_VALUES])

-----------------------------------------------------------------------------
(* The scale engine: fluid scale.  A numeric literal of the clamp() string *)
(* is what toFixed(4) and the trailing-zero trim leave: "NaN", "Infinity", *)
(* or a sign, the integer part and the fraction digits that remain.        *)

NaNLit == [k |-> "NaN", neg |-> FALSE, int |-> 0, frac |-> <<>>]
InfinityLit(neg) == [k |-> "Infinity", neg |-> neg, int |-> 0, frac |-> <<>>]

\* replace(/\.?0+$/, ''): the zeros at the end of the fraction go (and the
\* point with them when no digit is left).
RECURSIVE TrimZeros(_)
TrimZeros(digits) ==
    IF Len(digits) > 0 /\ digits[Len(digits)] = 0
    THEN TrimZeros(SubSeq(digits, 1, Len(digits) - 1))
    ELSE digits

\* The last f decimal digits of u, the first digit first.
RECURSIVE DigitsOf(_, _)
DigitsOf(u, f) ==
    IF f = 0 THEN <<>> ELSE Append(DigitsOf(u \div 10, f - 1), u % 10)

RECURSIVE Pow10(_)
Pow10(f) == IF f = 0 THEN 1 ELSE 10 * Pow10(f - 1)

\* x.toFixed(f): the nearest multiple of 10^-f to the magnitude of x, a tie
\* going up, under the sign of x, written with f digits after the point.
toFixed(x, f) ==
    IF x.k = "nan" THEN NaNLit
    ELSE IF x.k = "inf" THEN InfinityLit(x.n < 0)
    ELSE LET u == (2 * Abs(x.n) * Pow10(f) + x.d) \div (2 * x.d)
         IN  [k |-> "dec", neg |-> x.n < 0, int |-> u \div Pow10(f),
              frac |-> DigitsOf(u % Pow10(f), f)]

\* x.toFixed(4).replace(/\.?0+$/, '')
ToFixed4(x) ==
    LET lit == toFixed(x, 4)
    IN  [lit EXCEPT !.frac = TrimZeros(lit.frac)]

\* The digits d1 d2 ... after the point, as the fraction 0.d1d2...
RECURSIVE FracValue(_)
FracValue(digits) ==
    IF Len(digits) = 0 THEN N(0)
    ELSE JDiv(JAdd(N(digits[1]), FracValue(Tail(digits))), N(10))

\* parseFloat of a literal that [0-9.]+ matched
parseFloat(lit) == JAdd(N(lit.int), FracValue(lit.frac))

\* calculateFluidSize(minSize, maxSize, minViewport, maxViewport): the
\* clamp() string, as its literals: `clamp(${min}rem, ${preferred}, ${max}rem)`
\* with preferred `${rem}rem + ${vw}vw` (form "plus", intercept >= 0) or
\* `${vw}vw - ${rem}rem` (form "minus").
calculateFluidSize(minSize, maxSize, minViewport, maxViewport) ==
    LET minRem    == JDiv(minSize, N(16))
        maxRem    == JDiv(maxSize, N(16))
        minVwRem  == JDiv(minViewport, N(16))
        maxVwRem  == JDiv(maxViewport, N(16))
        slope     == JDiv(JSub(maxRem, minRem), JSub(maxVwRem, minVwRem))
        intercept == JSub(minRem, JMul(slope, minVwRem))
        slopeVw   == JMul(slope, N(100))
    IN  [min  |-> ToFixed4(minRem),
         form |-> IF JLeq(N(0), intercept) THEN "plus" ELSE "minus",
         rem  |-> IF JLeq(N(0), intercept) THEN ToFixed4(intercept)
                  ELSE ToFixed4(MathAbs(intercept)),
         vw   |-> ToFixed4(slopeVw),
         max  |-> ToFixed4(maxRem)]

\* Does /[0-9.]+/ match the whole literal (digits and a point, no sign)?
IsDigitsLit(lit) == lit.k = "dec" /\ ~lit.neg

Null == [k |-> "null"]

\* parseClampExpression(clamp): the match of
\* /clamp\(([0-9.]+)rem,.*,\s*([0-9.]+)rem\)/, or null.
parseClampExpression(clamp) ==
    IF ~(IsDigitsLit(clamp.min) /\ IsDigitsLit(clamp.max)) THEN Null
    ELSE [k   |-> "minmax",
          min |-> JMul(parseFloat(clamp.min), N(16)),
          max |-> JMul(parseFloat(clamp.max), N(16))]

\* STEP_MULTIPLIERS
STEP_MULTIPLIERS ==
    [xs |-> Q(3, 4), sm |-> Q(7, 8), base |-> N(1), lg |-> Q(9, 8), xl |-> Q(5, 4)]
    @@ ("2xl" :> Q(3, 2)) @@ ("3xl" :> Q(15, 8)) @@ ("4xl" :> Q(9, 4))
    @@ ("5xl" :> N(3)) @@ ("6xl" :> Q(15, 4))

\* calculateFluidScale(config); base = 16 when config.base is undefined.
calculateFluidScale(config) ==
    LET base == IF config.base.k = "undef" THEN N(16) ELSE config.base
    IN  [step \in Range(DEFAULT_STEP_NAMES) |->
            calculateFluidSize(JMul(JMul(base, STEP_MULTIPLIERS[step]), config.minScale),
                               JMul(JMul(base, STEP_MULTIPLIERS[step]), config.maxScale),
                               config.minViewport, config.maxViewport)]

\* { ...config.values }: the own properties of the object, none for undefined.
SpreadValues(values) ==
    IF values.k = "undef" THEN NoKeys
    ELSE [key \in {values.entries[i][1] : i \in 1..Len(values.entries)} |->
            LET i == CHOOSE j \in 1..Len(values.entries) : values.entries[j][1] = key
            IN  values.entries[i][2]]

\* calculateScale(config): the switch on config.type.
calculateScale(config) ==
    CASE config.type = "modular" -> Return(calculateModularScale(config))
      [] config.type = "fixed"   -> calculateFixedScale(config)
      [] config.type = "fluid"   -> Return(calculateFluidScale(config))
      [] config.type = "custom"  -> Return(SpreadValues(config.values))
      [] OTHER                   -> calculateFixedScale(getDefaultFixedScale)

-----------------------------------------------------------------------------
(* The calls of the scale engine.  calc is one call:                       *)
(*   pc      "ready" before the function runs, "done" after it returned or *)
(*           threw, "parsed" after parseClampExpression read the result    *)
(*   fn      the function called                                           *)
(*   args    its arguments                                                 *)
(*   out     what the call came to                                         *)
(*   parsed  the result of parseClampExpression(out)                       *)

Call(fn, args) == [pc |-> "ready", fn |-> fn, args |-> args, out |-> <<>>, parsed |-> Null]

\* stepsUp and stepsDown of calculateModularScaleRange range over 0..MaxSteps.
MaxSteps == 3

\* The provider is not mounted and no waitForFont is pending while a pure
\* function is called.
ProviderAtRest ==
    /\ browser \in BOOLEAN
    /\ props = DefaultProps
    /\ mounted = FALSE
    /\ fontStates = [k \in FontKeys |-> defaultFontState]
    /\ view = fontStates
    /\ allFontsState = AllFontsStateOf(fontStates)
    /\ requestedFonts = {}
    /\ injectedFontsRef = {}
    /\ appendCount = [k \in FontKeys |-> 0]
    /\ style = NoStyle
    /\ preloadLinks = {}
    /\ calls = EmptyBag
    /\ wf = WfIdle

\* The calls made.  calculateScale: each known type, well formed and with
\* malformed or missing fields, an unknown type and none.
\* calculateModularScale: base > 0 and ratio > 1.
\* calculateModularScaleRange: ratio > 0.  calculateFixedScale: values maps
\* of numbers and of what is no positive number.  calculateFluidSize: sizes
\* and viewport pairs in px.
ScaleInit ==
    LET FieldValues == {N(16), N(0), N(-16), NaN, Undefined, Text}
        FixedValues == {Q(33, 2), N(12), N(0), N(-4), NaN, PosInf, Text, Undefined}
        ValuesMaps ==
            {Obj(<<>>)} \cup
            {Obj(<<<<"xs", a>>, <<"base", b>>, <<"lg", c>>>>) :
                a \in FixedValues, b \in FixedValues, c \in {N(18), N(0), Text}}
        ScaleConfigs ==
            {ScaleConfig(t, [values |-> v]) :
                t \in {"fixed", "custom", "bogus", "undefined"},
                v \in {Undefined, Obj(<<>>),
                       Obj(<<<<"xs", N(12)>>, <<"base", N(0)>>, <<"lg", Text>>>>)}}
            \cup {ScaleConfig("modular", [base |-> b, ratio |-> r]) :
                    b \in FieldValues,
                    r \in {Q(5, 4), N(1), N(0), NaN, Undefined, Text, PosInf}}
            \cup {ScaleConfig("fluid", [base |-> b, minViewport |-> vp[1],
                                        maxViewport |-> vp[2],
                                        minScale |-> sc[1], maxScale |-> sc[2]]) :
                    b \in {Undefined, N(16), NaN},
                    vp \in {<<N(320), N(1280)>>, <<N(320), N(320)>>, <<N(1280), N(320)>>,
                            <<Undefined, N(1280)>>, <<N(0), NaN>>},
                    sc \in {<<N(1), Q(5, 4)>>, <<Undefined, Undefined>>, <<Text, N(1)>>,
                            <<N(-1), N(0)>>}}
        ModularBases == {Q(1, 100), Q(1, 2), N(1), N(10), N(16)}
        ModularRatios == {Q(6, 5), Q(5, 4), Q(3, 2), N(2)}
        RangeRatios == ModularRatios \cup {Q(1, 2), Q(4, 5), N(1)}
        FluidSizes == {N(10), Q(21, 2), Q(45, 4), N(12), N(16), N(17), N(20), N(24)}
        Viewports == {<<N(320), N(1280)>>, <<N(300), N(1000)>>, <<N(375), N(1440)>>}
    IN
    /\ ProviderAtRest
    /\ \/ calc \in {Call("calculateScale", c) : c \in ScaleConfigs}
       \/ calc \in {Call("calculateModularScale",
                         ScaleConfig("modular", [base |-> b, ratio |-> r])) :
                       b \in ModularBases, r \in ModularRatios}
       \/ calc \in {Call("calculateModularScaleRange",
                         [base |-> b, ratio |-> r, stepsUp |-> u, stepsDown |-> d]) :
                       b \in ModularBases, r \in RangeRatios,
                       u \in 0..MaxSteps, d \in 0..MaxSteps}
       \/ calc \in {Call("calculateFixedScale", ScaleConfig("fixed", [values |-> v])) :
                       v \in ValuesMaps}
       \/ calc \in {Call("calculateFluidSize",
                         [minSize |-> a, maxSize |-> b, minViewport |-> vp[1],
                          maxViewport |-> vp[2]]) :
                       a \in FluidSizes, b \in FluidSizes, vp \in Viewports}

Ready(fn) == calc.pc = "ready" /\ calc.fn = fn

Finish(out) ==
    /\ calc' = [calc EXCEPT !.pc = "done", !.out = out]
    /\ UNCHANGED <<providerVars, wf>>

CalculateScale ==
    /\ Ready("calculateScale")
    /\ Finish(calculateScale(calc.args))

CalculateModularScale ==
    /\ Ready("calculateModularScale")
    /\ Finish(Return(calculateModularScale(calc.args)))

CalculateModularScaleRange ==
    /\ Ready("calculateModularScaleRange")
    /\ Finish(Return(calculateModularScaleRange(calc.args.base, calc.args.ratio,
                                                calc.args.stepsUp, calc.args.stepsDown)))

CalculateFixedScale ==
    /\ Ready("calculateFixedScale")
    /\ Finish(calculateFixedScale(calc.args))

CalculateFluidSize ==
    /\ Ready("calculateFluidSize")
    /\ Finish(Return(calculateFluidSize(calc.args.minSize, calc.args.maxSize,
                                        calc.args.minViewport, calc.args.maxViewport)))

\* parseClampExpression applied to the string calculateFluidSize returned.
ParseClampExpression ==
    /\ calc.pc = "done"
    /\ calc.fn = "calculateFluidSize"
    /\ calc' = [calc EXCEPT !.pc = "parsed", !.parsed = parseClampExpression(calc.out.value)]
    /\ UNCHANGED <<providerVars, wf>>

ScaleNext ==
    \/ CalculateScale
    \/ CalculateModularScale
    \/ CalculateModularScaleRange
    \/ CalculateFixedScale
    \/ CalculateFluidSize
    \/ ParseClampExpression

ScaleSpec == ScaleInit /\ [][ScaleNext]_vars

Returned(fn) == calc.pc # "ready" /\ calc.fn = fn /\ ~calc.out.threw

-----------------------------------------------------------------------------
(* Claims about the scale engine.                                          *)

KnownTypes == {"modular", "fixed", "fluid", "custom"}

\* C11: calculateScale never throws: for a configuration whose type is
\* unknown or missing it returns the hardcoded default fixed scale, and for a
\* configuration of a known type with malformed or missing fields (bad
\* numbers, no values map, minViewport equal to maxViewport) it still
\* returns a result instead of raising an exception.
C11_CalculateScaleNeverThrows ==
    (calc.pc = "done" /\ calc.fn = "calculateScale") =>
        /\ ~calc.out.threw
        /\ calc.args.type \notin KnownTypes =>
              calc.out.value = SpreadValues(DEFAULT_FIXED_SCALE_VALUES)

\* The values of a computed scale in the order xs, sm, base, ..., 6xl.
InStepOrder(scale) == [i \in 1..Len(DEFAULT_STEP_NAMES) |-> scale[DEFAULT_STEP_NAMES[i]]]

StrictlyIncreasing(seq) == \A i \in 1..(Len(seq) - 1) : JLess(seq[i], seq[i + 1])

Ascending(seq) == \A i \in 1..(Len(seq) - 1) : JLeq(seq[i], seq[i + 1])

\* C12, as stated: for every modular configuration with base > 0 and
\* ratio > 1 the ten values of calculateModularScale (base * ratio^n rounded
\* to 2 decimals, n = -2..7) are strictly increasing in the order xs..6xl.
C12_ModularStrictlyIncreasing ==
    Returned("calculateModularScale") =>
        StrictlyIncreasing(InStepOrder(calc.out.value))

\* The smallest distance of two neighbouring values before rounding, the one
\* of xs and sm: base * (ratio - 1) / ratio^2.
SmallestGap(config) ==
    JDiv(JMul(config.base, JSub(config.ratio, N(1))), JMul(config.ratio, config.ratio))

\* C12, amended: for base > 0 and ratio > 1 the ten values are in ascending
\* order (neighbours may round to the same hundredth), and strictly
\* increasing when neighbouring values are at least 0.02 apart before
\* rounding.
C12_ModularAscending ==
    Returned("calculateModularScale") =>
        /\ Ascending(InStepOrder(calc.out.value))
        /\ JLeq(Q(2, 100), SmallestGap(calc.args)) =>
              StrictlyIncreasing(InStepOrder(calc.out.value))
        /\ calc.out.value["base"] = RoundTo2(calc.args.base)

C12_Witness ==
    /\ Returned("calculateModularScale")
    /\ calc.args.base = N(16) /\ calc.args.ratio = Q(5, 4)
    /\ calc.out.value["xs"] = Q(1024, 100)
    /\ calc.out.value["lg"] = N(20)
    /\ calc.out.value["xl"] = N(25)

\* C13: for base > 0, ratio > 0 and stepsUp, stepsDown >= 0,
\* calculateModularScaleRange returns stepsDown + 1 + stepsUp values sorted
\* in ascending order, and the base value is one of them.
C13_RangeSortedAscending ==
    Returned("calculateModularScaleRange") =>
        /\ Len(calc.out.value) = calc.args.stepsDown + 1 + calc.args.stepsUp
        /\ Ascending(calc.out.value)
        /\ \E i \in 1..Len(calc.out.value) : calc.out.value[i] = calc.args.base

\* A number greater than 0.
PositiveNumber(v) == v.k \in {"num", "inf"} /\ v.n > 0

\* C14: calculateFixedScale returns exactly the entries of config.values
\* whose value is a number greater than 0, each with its key and value
\* unchanged; the other entries are omitted and no other key is added.
C14_FixedKeepsPositiveNumbers ==
    Returned("calculateFixedScale") =>
        LET entries == calc.args.values.entries
            kept    == {i \in 1..Len(entries) : PositiveNumber(entries[i][2])}
        IN  /\ DOMAIN calc.out.value = {entries[i][1] : i \in kept}
            /\ \A i \in kept : calc.out.value[entries[i][1]] = entries[i][2]

C14_Witness ==
    /\ Returned("calculateFixedScale")
    /\ calc.args.values.entries = <<<<"xs", N(0)>>, <<"base", Q(33, 2)>>, <<"lg", Text>>>>
    /\ DOMAIN calc.out.value = {"base"}
    /\ calc.out.value["base"] = Q(33, 2)

\* A literal of at most 4 decimals in units of 0.0001, signed.
LitUnits(lit) ==
    LET f == lit.frac
        digit(i) == IF i <= Len(f) THEN f[i] ELSE 0
        u == lit.int * 10000 + digit(1) * 1000 + digit(2) * 100 + digit(3) * 10 + digit(4)
    IN  IF lit.neg THEN -u ELSE u

\* 1600 times the preferred term of a clamp() at a viewport width of v px,
\* in units of 0.0001rem: 1rem = 16px and 1vw = v/100 px = v/1600 rem.
PreferredAt(clamp, v) ==
    IF clamp.form = "plus"
    THEN LitUnits(clamp.rem) * 1600 + LitUnits(clamp.vw) * v
    ELSE LitUnits(clamp.vw) * v - LitUnits(clamp.rem) * 1600

\* Viewport widths from minViewport to maxViewport: both ends and the
\* quarter points between them.
WidthsBetween(lo, hi) == {lo + ((hi - lo) * q) \div 4 : q \in 0..4}

\* C15: for 0 < minSize <= maxSize and 0 < minViewport < maxViewport the
\* preferred term of the clamp() of calculateFluidSize, read with the
\* literals as they are formatted, lies between the emitted min and max at
\* every viewport width in [minViewport, maxViewport].
C15_PreferredWithinMinMax ==
    (Returned("calculateFluidSize") /\ JLeq(calc.args.minSize, calc.args.maxSize)) =>
        \A v \in WidthsBetween(calc.args.minViewport.n, calc.args.maxViewport.n) :
            /\ LitUnits(calc.out.value.min) * 1600 <= PreferredAt(calc.out.value, v)
            /\ PreferredAt(calc.out.value, v) <= LitUnits(calc.out.value.max) * 1600

\* C16: for 0 < min < max (in px) and a valid viewport pair,
\* parseClampExpression(calculateFluidSize(min, max, minViewport,
\* maxViewport)) returns the min and max in px that were passed in.
C16_ParseRecoversMinMax ==
    (calc.pc = "parsed" /\ JLess(calc.args.minSize, calc.args.maxSize)) =>
        /\ calc.parsed.k = "minmax"
        /\ calc.parsed.min = calc.args.minSize
        /\ calc.parsed.max = calc.args.maxSize

-----------------------------------------------------------------------------
(* Font metrics and the fallback calculator.  A font name is the sequence  *)
(* of its characters; the fields of a FontMetrics are numbers, capHeight   *)
(* and xHeight Undefined when the object has none.                         *)

FontMetrics(familyName, ascent, descent, lineGap, unitsPerEm, capHeight, xHeight) ==
    [familyName |-> familyName, ascent |-> N(ascent), descent |-> N(descent),
     lineGap |-> N(lineGap), unitsPerEm |-> N(unitsPerEm),
     capHeight |-> capHeight, xHeight |-> xHeight]

\* SYSTEM_FONT_METRICS, in the order of Object.entries.
SYSTEM_FONT_METRICS ==
    <<
      FontMetrics(<<"A", "r", "i", "a", "l">>,
                  1854, -434, 67, 2048, N(1467), N(1062)),
      FontMetrics(<<"H", "e", "l", "v", "e", "t", "i", "c", "a", " ", "N", "e", "u", "e">>,
                  952, -213, 28, 1000, N(714), N(517)),
      FontMetrics(<<"V", "e", "r", "d", "a", "n", "a">>,
                  2059, -430, 0, 2048, N(1489), N(1117)),
      FontMetrics(<<"G", "e", "o", "r", "g", "i", "a">>,
                  1878, -449, 0, 2048, N(1419), N(986)),
      FontMetrics(<<"T", "i", "m", "e", "s", " ", "N", "e", "w", " ", "R", "o", "m", "a", "n">>,
                  1825, -443, 87, 2048, N(1356), N(916)),
      FontMetrics(<<"C", "o", "u", "r", "i", "e", "r", " ", "N", "e", "w">>,
                  1705, -615, 0, 2048, N(1170), N(846)),
      FontMetrics(<<"s", "y", "s", "t", "e", "m", "-", "u", "i">>,
                  1900, -400, 0, 2048, N(1450), N(1050)),
      FontMetrics(<<"-", "a", "p", "p", "l", "e", "-", "s", "y", "s", "t", "e", "m">>,
                  1900, -400, 0, 2048, N(1450), N(1050)),
      FontMetrics(<<"S", "e", "g", "o", "e", " ", "U", "I">>,
                  2210, -514, 0, 2048, N(1434), N(1024)),
      FontMetrics(<<"R", "o", "b", "o", "t", "o">>,
                  1900, -500, 0, 2048, N(1456), N(1082))
    >>

\* String.prototype.toLowerCase
toLowerCase(str) ==
    LET lower == [A |-> "a", B |-> "b", C |-> "c", D |-> "d", E |-> "e", F |-> "f",
                  G |-> "g", H |-> "h", I |-> "i", J |-> "j", K |-> "k", L |-> "l",
                  M |-> "m", N |-> "n", O |-> "o", P |-> "p", Q |-> "q", R |-> "r",
                  S |-> "s", T |-> "t", U |-> "u", V |-> "v", W |-> "w", X |-> "x",
                  Y |-> "y", Z |-> "z"]
    IN  [i \in 1..Len(str) |-> IF str[i] \in DOMAIN lower THEN lower[str[i]] ELSE str[i]]

\* String.prototype.includes
includes(str, part) ==
    \E i \in 0..(Len(str) - Len(part)) : SubSeq(str, i + 1, i + Len(part)) = part

\* The first entry of the table among those at the indices hits, as
\* [k |-> "metrics", m |-> ...], or Null when there is none.
FirstEntry(hits) ==
    IF hits = {} THEN Null
    ELSE LET i == CHOOSE j \in hits : \A h \in hits : j <= h
         IN  [k |-> "metrics", m |-> SYSTEM_FONT_METRICS[i]]

\* getSystemFontMetrics(fontName): the property of the table named fontName,
\* else the first case-insensitive match, else the first partial match, else
\* null. `fontName in SYSTEM_FONT_METRICS` also accepts the properties the
\* table object inherits from Object.prototype: what the table yields under
\* such a name is a function, where every field of FontMetrics reads as
\* undefined.
getSystemFontMetrics(fontName) ==
    LET lowerName == toLowerCase(fontName)
        Name(i) == SYSTEM_FONT_METRICS[i].familyName
        Entries == 1..Len(SYSTEM_FONT_METRICS)
        Exact == {i \in Entries : Name(i) = fontName}
        SameLower == {i \in Entries : toLowerCase(Name(i)) = lowerName}
        Partial == {i \in Entries : \/ includes(lowerName, toLowerCase(Name(i)))
                                    \/ includes(toLowerCase(Name(i)), lowerName)}
        ObjectPrototypeNames ==
            {<<"c", "o", "n", "s", "t", "r", "u", "c", "t", "o", "r">>,
             <<"t", "o", "S", "t", "r", "i", "n", "g">>}
        InheritedProperty ==
            [familyName |-> <<>>, ascent |-> Undefined, descent |-> Undefined,
             lineGap |-> Undefined, unitsPerEm |-> Undefined,
             capHeight |-> Undefined, xHeight |-> Undefined]
    IN  IF FirstEntry(Exact).k # "null" THEN FirstEntry(Exact)
        ELSE IF fontName \in ObjectPrototypeNames
             THEN [k |-> "inherited", m |-> InheritedProperty]
        ELSE IF FirstEntry(SameLower).k # "null" THEN FirstEntry(SameLower)
        ELSE FirstEntry(Partial)

\* createDefaultMetrics(familyName)
createDefaultMetrics(familyName) ==
    FontMetrics(familyName, 900, -200, 0, 1000, N(700), N(500))

\* The truthiness of a number or undefined: false for 0, NaN and undefined.
Truthy(v) == v.k = "inf" \/ (v.k = "num" /\ v.n # 0)

\* normalizeMetrics(metrics, targetUnitsPerEm)
normalizeMetrics(metrics, targetUnitsPerEm) ==
    LET scale == JDiv(targetUnitsPerEm, metrics.unitsPerEm)
        Scaled(v) == MathRound(JMul(v, scale))
    IN  [metrics EXCEPT !.unitsPerEm = targetUnitsPerEm,
                        !.ascent = Scaled(metrics.ascent),
                        !.descent = Scaled(metrics.descent),
                        !.lineGap = Scaled(metrics.lineGap),
                        !.capHeight = IF Truthy(metrics.capHeight)
                                      THEN Scaled(metrics.capHeight) ELSE Undefined,
                        !.xHeight = IF Truthy(metrics.xHeight)
                                    THEN Scaled(metrics.xHeight) ELSE Undefined]

\* a || b on numbers
OrElse(a, b) == IF Truthy(a) THEN a ELSE b

\* The difference score of findBestMatchingFallback for one table entry.
MatchScore(metrics, systemMetrics) ==
    LET normalizedCustom == normalizeMetrics(metrics, N(1000))
        normalizedSystem == normalizeMetrics(systemMetrics, N(1000))
        ascentDiff  == MathAbs(JSub(normalizedCustom.ascent, normalizedSystem.ascent))
        descentDiff == MathAbs(JSub(normalizedCustom.descent, normalizedSystem.descent))
        xHeightDiff == MathAbs(JSub(OrElse(normalizedCustom.xHeight, N(500)),
                                    OrElse(normalizedSystem.xHeight, N(500))))
    IN  JAdd(JAdd(ascentDiff, descentDiff), JMul(xHeightDiff, N(2)))

\* for (const [name, systemMetrics] of Object.entries(SYSTEM_FONT_METRICS))
\*   if (score < bestScore) { bestScore = score; bestMatch = name; }
RECURSIVE BestMatchLoop(_, _, _, _)
BestMatchLoop(metrics, i, bestMatch, bestScore) ==
    IF i > Len(SYSTEM_FONT_METRICS) THEN bestMatch
    ELSE LET score == MatchScore(metrics, SYSTEM_FONT_METRICS[i])
         IN  IF JLess(score, bestScore)
             THEN BestMatchLoop(metrics, i + 1, SYSTEM_FONT_METRICS[i].familyName, score)
             ELSE BestMatchLoop(metrics, i + 1, bestMatch, bestScore)

\* findBestMatchingFallback(metrics): bestMatch = 'Arial', bestScore = Infinity
findBestMatchingFallback(metrics) ==
    BestMatchLoop(metrics, 1, <<"A", "r", "i", "a", "l">>, PosInf)

\* `${x.toFixed(2)}%`
Percent(x) == [number |-> toFixed(x, 2), unit |-> "%"]

\* calculateFallbackAdjustments(customMetrics, fallbackFont)
calculateFallbackAdjustments(customMetrics, fallbackFont) ==
    LET found == getSystemFontMetrics(fallbackFont)
        fallbackMetrics == IF found.k # "null" THEN found.m
                           ELSE createDefaultMetrics(fallbackFont)
        normalized == normalizeMetrics(customMetrics, N(1000))
        normalizedFallback == normalizeMetrics(fallbackMetrics, N(1000))
        ascentOverride  == JMul(JDiv(MathAbs(normalized.ascent), N(1000)), N(100))
        descentOverride == JMul(JDiv(MathAbs(normalized.descent), N(1000)), N(100))
        lineGapOverride == JMul(JDiv(normalized.lineGap, N(1000)), N(100))
        customXHeight   == OrElse(normalized.xHeight, N(500))
        fallbackXHeight == OrElse(normalizedFallback.xHeight, N(500))
        sizeAdjust      == JMul(JDiv(customXHeight, fallbackXHeight), N(100))
    IN  [ascentOverride  |-> Percent(ascentOverride),
         descentOverride |-> Percent(descentOverride),
         lineGapOverride |-> Percent(lineGapOverride),
         sizeAdjust      |-> Percent(sizeAdjust)]

\* Mutant of estimateCLSImprovement: the two estimates are exchanged.
estimateCLSImprovement_Exchanged(customMetrics, fallbackFont) ==
    LET found == getSystemFontMetrics(fallbackFont)
        normalized == normalizeMetrics(customMetrics, N(1000))
        normalizedFallback == normalizeMetrics(found.m, N(1000))
        LineHeight(m) == JDiv(JAdd(JSub(m.ascent, m.descent), m.lineGap), N(1000))
        heightDiff == MathAbs(JSub(LineHeight(normalized), LineHeight(normalizedFallback)))
        beforeCLS == MathMin(Q(25, 100), JMul(heightDiff, Q(5, 10)))
        afterCLS == MathMin(Q(5, 100), JMul(heightDiff, Q(5, 100)))
    IN  IF found.k = "null" THEN [before |-> Q(15, 100), after |-> Q(15, 100)]
        ELSE [before |-> RoundTo2(afterCLS), after |-> RoundTo2(beforeCLS)]

\* estimateCLSImprovement(customMetrics, fallbackFont)
estimateCLSImprovement(customMetrics, fallbackFont) ==
    LET found == getSystemFontMetrics(fallbackFont)
        normalized == normalizeMetrics(customMetrics, N(1000))
        normalizedFallback == normalizeMetrics(found.m, N(1000))
        LineHeight(m) == JDiv(JAdd(JSub(m.ascent, m.descent), m.lineGap), N(1000))
        heightDiff == MathAbs(JSub(LineHeight(normalized), LineHeight(normalizedFallback)))
        beforeCLS == MathMin(Q(25, 100), JMul(heightDiff, Q(5, 10)))
        afterCLS == MathMin(Q(5, 100), JMul(heightDiff, Q(5, 100)))
    IN  IF found.k = "null" THEN [before |-> Q(15, 100), after |-> Q(15, 100)]
        ELSE [before |-> RoundTo2(beforeCLS), after |-> RoundTo2(afterCLS)]

-----------------------------------------------------------------------------
(* The calls of the metrics functions.                                     *)

\* The calls made: metrics of a custom font with integer fields and
\* unitsPerEm > 0, capHeight and xHeight absent, 0 or positive, and fallback
\* names that match a table entry exactly, but for the case, in part, or
\* not at all, and the name of an inherited property of the table.
MetricsInit ==
    LET Custom == {FontMetrics(<<"T", "e", "s", "t">>, a, d, g, u, c, x) :
                      a \in {900, 1854, 1900}, d \in {-200, -434}, g \in {0, 67, -50},
                      u \in {1000, 2048}, c \in {Undefined, N(0), N(700)},
                      x \in {Undefined, N(0), N(500), N(1062)}}
        Names == {<<"A", "r", "i", "a", "l">>, <<"a", "r", "i", "a", "l">>,
                  <<"A", "r", "i", "a", "l", " ", "B", "l", "a", "c", "k">>,
                  <<"R", "o", "b">>, <<>>, <<"G", "e", "o", "r", "g", "i", "a">>,
                  <<"C", "o", "m", "i", "c", " ", "S", "a", "n", "s">>,
                  <<"c", "o", "n", "s", "t", "r", "u", "c", "t", "o", "r">>}
    IN
    /\ ProviderAtRest
    /\ \/ calc \in {Call("normalizeMetrics", [metrics |-> m, targetUnitsPerEm |-> t]) :
                       m \in Custom, t \in {N(1000), N(2048)}}
       \/ calc \in {Call("findBestMatchingFallback", [metrics |-> m]) : m \in Custom}
       \/ calc \in {Call("calculateFallbackAdjustments",
                         [customMetrics |-> m, fallbackFont |-> f]) :
                       m \in Custom, f \in Names}
       \/ calc \in {Call("estimateCLSImprovement",
                         [customMetrics |-> m, fallbackFont |-> f]) :
                       m \in Custom, f \in Names}

NormalizeMetrics ==
    /\ Ready("normalizeMetrics")
    /\ Finish(Return(normalizeMetrics(calc.args.metrics, calc.args.targetUnitsPerEm)))

FindBestMatchingFallback ==
    /\ Ready("findBestMatchingFallback")
    /\ Finish(Return(findBestMatchingFallback(calc.args.metrics)))

CalculateFallbackAdjustments ==
    /\ Ready("calculateFallbackAdjustments")
    /\ Finish(Return(calculateFallbackAdjustments(calc.args.customMetrics,
                                                  calc.args.fallbackFont)))

EstimateCLSImprovement ==
    /\ Ready("estimateCLSImprovement")
    /\ Finish(Return(estimateCLSImprovement(calc.args.customMetrics,
                                            calc.args.fallbackFont)))

MetricsNext ==
    \/ NormalizeMetrics
    \/ FindBestMatchingFallback
    \/ CalculateFallbackAdjustments
    \/ EstimateCLSImprovement

MetricsSpec == MetricsInit /\ [][MetricsNext]_vars

-----------------------------------------------------------------------------
(* Claims about the metrics functions.                                     *)

\* C17: for every FontMetrics m with integer fields and unitsPerEm > 0,
\* normalizeMetrics(m, m.unitsPerEm) returns the identical value in every
\* field of m, capHeight and xHeight included, whatever value they hold.
C17_NormalizeToOwnUnitsIsIdentity ==
    (Returned("normalizeMetrics")
        /\ calc.args.targetUnitsPerEm = calc.args.metrics.unitsPerEm) =>
        calc.out.value = calc.args.metrics

\* A percentage that is not negative: digits, a point, 2 digits, '%'.
NonNegativePercent(p) ==
    /\ p.unit = "%"
    /\ p.number.k = "dec"
    /\ ~p.number.neg
    /\ Len(p.number.frac) = 2

\* C18: for every FontMetrics with unitsPerEm > 0 (any integer ascent,
\* descent, lineGap and optional xHeight) and every fallback font name, each
\* of the four outputs of calculateFallbackAdjustments is a non-negative
\* number with 2 decimals followed by '%'.
C18_AdjustmentsAreNonNegativePercents ==
    Returned("calculateFallbackAdjustments") =>
        /\ NonNegativePercent(calc.out.value.ascentOverride)
        /\ NonNegativePercent(calc.out.value.descentOverride)
        /\ NonNegativePercent(calc.out.value.lineGapOverride)
        /\ NonNegativePercent(calc.out.value.sizeAdjust)

\* The score of the claim for table entry i: |d ascent| + |d descent| +
\* 2 * |d xHeight|, both sides scaled to 1000 units per em and rounded, an
\* absent x-height taken as 500.
ClaimedScore(metrics, i) ==
    LET system == SYSTEM_FONT_METRICS[i]
        At1000(v, m) == MathRound(JDiv(JMul(v, N(1000)), m.unitsPerEm))
        XHeight(m) == IF m.xHeight.k = "undef" THEN N(500) ELSE At1000(m.xHeight, m)
    IN  JAdd(JAdd(MathAbs(JSub(At1000(metrics.ascent, metrics), At1000(system.ascent, system))),
                  MathAbs(JSub(At1000(metrics.descent, metrics), At1000(system.descent, system)))),
             JMul(N(2), MathAbs(JSub(XHeight(metrics), XHeight(system)))))

\* C19: findBestMatchingFallback(metrics) returns a key of the system-font
\* metrics table: the first entry in table order whose score is minimal
\* over the table.
C19_BestMatchIsFirstMinimum ==
    Returned("findBestMatchingFallback") =>
        \E i \in 1..Len(SYSTEM_FONT_METRICS) :
            /\ calc.out.value = SYSTEM_FONT_METRICS[i].familyName
            /\ \A j \in 1..Len(SYSTEM_FONT_METRICS) :
                  JLeq(ClaimedScore(calc.args.metrics, i), ClaimedScore(calc.args.metrics, j))
            /\ \A j \in 1..(i - 1) :
                  JLess(ClaimedScore(calc.args.metrics, i), ClaimedScore(calc.args.metrics, j))

\* 0 <= after <= before, before <= 0.25 and after <= 0.05
WithinCLSBounds(estimate) ==
    /\ JLeq(N(0), estimate.after)
    /\ JLeq(estimate.after, estimate.before)
    /\ JLeq(estimate.before, Q(25, 100))
    /\ JLeq(estimate.after, Q(5, 100))

-----------------------------------------------------------------------------
(* Part IV: the variant resolver, the config validator and                 *)
(* createFixedScaleFromArray.  Strings that are scanned (scale keys, font  *)
(* names, weight keys) are sequences of characters.                        *)

\* The number a string starts with, as parseFloat and parseInt read it:
\* leading blanks, a sign, digits, and with fraction = TRUE a point with
\* digits and an exponent; NaN when no digit is found.
StringToNumber(str, fraction) ==
    LET Digit == ("0" :> 0) @@ ("1" :> 1) @@ ("2" :> 2) @@ ("3" :> 3) @@ ("4" :> 4)
                 @@ ("5" :> 5) @@ ("6" :> 6) @@ ("7" :> 7) @@ ("8" :> 8) @@ ("9" :> 9)
        At(i, chars) == i <= Len(str) /\ str[i] \in chars
        RECURSIVE RunEnd(_)
        RunEnd(i) == IF At(i, DOMAIN Digit) THEN RunEnd(i + 1) ELSE i
        RECURSIVE SkipBlanks(_)
        SkipBlanks(i) == IF At(i, {" "}) THEN SkipBlanks(i + 1) ELSE i
        RECURSIVE IntValue(_, _)
        IntValue(i, j) == IF j <= i THEN 0
                          ELSE 10 * IntValue(i, j - 1) + Digit[str[j - 1]]
        signAt   == SkipBlanks(1)
        sign     == IF At(signAt, {"-"}) THEN -1 ELSE 1
        start    == IF At(signAt, {"+", "-"}) THEN signAt + 1 ELSE signAt
        intEnd   == RunEnd(start)
        hasPoint == fraction /\ At(intEnd, {"."})
        fracEnd  == IF hasPoint THEN RunEnd(intEnd + 1) ELSE intEnd
        fracDigits == IF hasPoint
                      THEN [h \in 1..(fracEnd - intEnd - 1) |-> Digit[str[intEnd + h]]]
                      ELSE <<>>
        noDigit  == intEnd = start /\ Len(fracDigits) = 0
        expSign  == IF At(fracEnd + 1, {"-"}) THEN -1 ELSE 1
        expStart == IF At(fracEnd + 1, {"+", "-"}) THEN fracEnd + 2 ELSE fracEnd + 1
        hasExp   == fraction /\ At(fracEnd, {"e", "E"}) /\ RunEnd(expStart) > expStart
        exponent == IF hasExp THEN expSign * IntValue(expStart, RunEnd(expStart)) ELSE 0
        mantissa == JAdd(N(IntValue(start, intEnd)), FracValue(fracDigits))
        infinity == <<"I", "n", "f", "i", "n", "i", "t", "y">>
    IN  IF fraction /\ \A i \in 1..Len(infinity) : At(start + i - 1, {infinity[i]})
        THEN JInf(sign)
        ELSE IF noDigit THEN NaN
        ELSE JMul(JMul(N(sign), mantissa), MathPow(N(10), exponent))

\* getScaleValue(scale, key, fallback): the value and whether it warned.
\* `key in scale` also accepts the properties the scale object inherits from
\* Object.prototype, whose values are functions.
getScaleValue(scale, key, fallback) ==
    LET ObjectPrototypeNames ==
            {<<"c", "o", "n", "s", "t", "r", "u", "c", "t", "o", "r">>,
             <<"t", "o", "S", "t", "r", "i", "n", "g">>}
        base == <<"b", "a", "s", "e">>
        numValue == StringToNumber(key, TRUE)
    IN  IF key \in DOMAIN scale THEN [value |-> scale[key], warned |-> FALSE]
        ELSE IF key \in ObjectPrototypeNames
             THEN [value |-> [k |-> "function", n |-> 0, d |-> 1], warned |-> FALSE]
        ELSE IF numValue.k # "nan" THEN [value |-> numValue, warned |-> FALSE]
        ELSE IF fallback.k # "undef" THEN [value |-> fallback, warned |-> FALSE]
        ELSE [value  |-> IF base \in DOMAIN scale /\ scale[base].k \notin {"undef", "null"}
                         THEN scale[base] ELSE N(16),
              warned |-> TRUE]

\* scaleValueToCSS(value, unit): a string as it is, a number as `${value}px`
\* (or rem, em).
scaleValueToCSS(value, unit) ==
    IF value.k = "str" THEN [number |-> value, unit |-> ""]
    ELSE IF unit = "rem" THEN [number |-> JDiv(value, N(16)), unit |-> "rem"]
    ELSE IF unit = "em" THEN [number |-> value, unit |-> "em"]
    ELSE [number |-> value, unit |-> "px"]

\* Mutant of resolveFontFamily: the generic family is added only when no
\* fallback is configured.
resolveFontFamily_GenericOnlyWithoutFallback(fontKey, fonts) ==
    LET font == fonts[fontKey]
        lowerName == toLowerCase(font.name)
        generic == IF includes(lowerName, <<"m", "o", "n", "o">>)
                      \/ includes(lowerName, <<"c", "o", "d", "e">>)
                   THEN <<"m", "o", "n", "o", "s", "p", "a", "c", "e">>
                   ELSE IF includes(lowerName, <<"s", "e", "r", "i", "f">>)
                           /\ ~includes(lowerName, <<"s", "a", "n", "s">>)
                   THEN <<"s", "e", "r", "i", "f">>
                   ELSE <<"s", "a", "n", "s", "-", "s", "e", "r", "i", "f">>
        parts == <<font.name>>
                 \o (IF font.fallback.k # "undef"
                     THEN <<font.name \o <<" ", "F", "a", "l", "l", "b", "a", "c", "k">>,
                            font.fallback.font>>
                     ELSE <<generic>>)
    IN  IF fontKey \in {"", "undefined"} THEN [value |-> Undefined, warned |-> FALSE]
        ELSE IF fontKey \notin DOMAIN fonts THEN [value |-> Undefined, warned |-> TRUE]
        ELSE [value  |-> [k |-> "list",
                          parts |-> [i \in 1..Len(parts) |->
                                        [name |-> parts[i],
                                         quoted |-> includes(parts[i], <<" ">>)]]],
              warned |-> FALSE]

\* resolveFontFamily(fontKey, fonts): the parts of the font-family list
\* that join(', ') makes one string of, each with its quotes (a part that
\* includes a blank is quoted), or undefined, with a warning when the key
\* names no font.
\* fonts maps a font key to [name, fallback]; "undefined" is no key.
resolveFontFamily(fontKey, fonts) ==
    LET font == fonts[fontKey]
        lowerName == toLowerCase(font.name)
        generic == IF includes(lowerName, <<"m", "o", "n", "o">>)
                      \/ includes(lowerName, <<"c", "o", "d", "e">>)
                   THEN <<"m", "o", "n", "o", "s", "p", "a", "c", "e">>
                   ELSE IF includes(lowerName, <<"s", "e", "r", "i", "f">>)
                           /\ ~includes(lowerName, <<"s", "a", "n", "s">>)
                   THEN <<"s", "e", "r", "i", "f">>
                   ELSE <<"s", "a", "n", "s", "-", "s", "e", "r", "i", "f">>
        parts == <<font.name>>
                 \o (IF font.fallback.k # "undef"
                     THEN <<font.name \o <<" ", "F", "a", "l", "l", "b", "a", "c", "k">>,
                            font.fallback.font>>
                     ELSE <<>>)
                 \o <<generic>>
    IN  IF fontKey \in {"", "undefined"} THEN [value |-> Undefined, warned |-> FALSE]
        ELSE IF fontKey \notin DOMAIN fonts THEN [value |-> Undefined, warned |-> TRUE]
        ELSE [value  |-> [k |-> "list",
                          parts |-> [i \in 1..Len(parts) |->
                                        [name |-> parts[i],
                                         quoted |-> includes(parts[i], <<" ">>)]]],
              warned |-> FALSE]

\* LETTER_SPACING_PRESETS
LETTER_SPACING_PRESETS ==
    [tighter |-> "-0.05em", tight |-> "-0.025em", normal |-> "0",
     wide |-> "0.025em", wider |-> "0.05em", widest |-> "0.1em"]

\* resolveVariant(variant, scale, fonts): the computed styles and the
\* warnings written to the console, in order.  A field of the variant that
\* is not given is "undefined" (fontSize: Undefined); a string fontSize is
\* [k |-> "key", key |-> its characters].
resolveVariant(variant, scale, fonts) ==
    LET scaleValue == getScaleValue(scale, variant.fontSize.key, Undefined)
        family == resolveFontFamily(variant.fontFamily, fonts)
        Copied(v) == IF v \in {"", "undefined"} THEN "undefined" ELSE v
    IN  [styles |->
            [fontSize      |-> IF variant.fontSize.k = "key"
                               THEN scaleValueToCSS(scaleValue.value, "px")
                               ELSE [number |-> variant.fontSize, unit |-> "px"],
             fontWeight    |-> variant.fontWeight,
             lineHeight    |-> variant.lineHeight,
             fontFamily    |-> family.value,
             letterSpacing |-> IF variant.letterSpacing \in DOMAIN LETTER_SPACING_PRESETS
                               THEN LETTER_SPACING_PRESETS[variant.letterSpacing]
                               ELSE Copied(variant.letterSpacing),
             textTransform |-> Copied(variant.textTransform),
             fontStyle     |-> Copied(variant.fontStyle)],
         warnings |->
            (IF variant.fontSize.k = "key" /\ scaleValue.warned
             THEN <<"scale key not found">> ELSE <<>>)
            \o (IF family.warned THEN <<"font not found">> ELSE <<>>)]

-----------------------------------------------------------------------------
(* The config validator.  A value of the configuration is Undefined,       *)
(* [k |-> "null"], a number, [k |-> "str", s |-> characters] or an object  *)
(* [k |-> "obj", ...]; font keys, variant keys and enumerated strings      *)
(* (display, type, fontFamily) are strings, "undefined" when not given.    *)
(* A ValidationResult is [valid, errors, warnings]; an error is            *)
(* [message, path], its path the segments joined by '.' and, under         *)
(* fonts.<key>.files, the weight key.                                      *)

VALID_WEIGHTS == {100, 200, 300, 400, 500, 600, 700, 800, 900}

ConfigValidationError(message, segments, weight) ==
    [message |-> message, path |-> [segments |-> segments, weight |-> weight]]

\* result.errors.push(...) when test holds
PushIf(test, result, error) ==
    IF test THEN [result EXCEPT !.errors = Append(@, error)] ELSE result

\* !v for a value of the configuration
Falsy(v) ==
    \/ v.k \in {"undef", "null", "nan"}
    \/ v.k = "num" /\ v.n = 0
    \/ v.k = "str" /\ "s" \in DOMAIN v /\ v.s = <<>>

\* validateFont(fontKey, font, result): the result after it, or a TypeError
\* when font is null or undefined (font.name cannot be read).
validateFont(fontKey, font, result) ==
    LET path == <<"fonts", fontKey>>
        Char == <<"0", "1", "2", "3", "4", "5", "6", "7", "8", "9">>
        RECURSIVE Numeral(_)
        Numeral(n) == IF n < 10 THEN <<Char[n + 1]>>
                      ELSE Append(Numeral(n \div 10), Char[(n % 10) + 1])
        \* String(x) for the result x of parseInt: 'NaN' or the numeral
        String(x) == IF x.k = "nan" THEN <<"N", "a", "N">>
                     ELSE (IF x.n < 0 THEN <<"-">> ELSE <<>>) \o Numeral(Abs(x.n))
        \* font.files[weightNum]: the value under the key String(weightNum)
        FilePath(files, property) ==
            LET hits == {j \in 1..Len(files.entries) : files.entries[j][1] = property}
            IN  IF hits = {} THEN Undefined
                ELSE files.entries[CHOOSE j \in hits : TRUE][2]
        \* the body of the loop for the key weight, weightNum its parseInt
        FileEntry(files, weight, weightNum, out) ==
            PushIf(FilePath(files, String(weightNum)).k # "str",
                   PushIf(~(weightNum.k = "num" /\ weightNum.n \in VALID_WEIGHTS), out,
                          ConfigValidationError("Invalid font weight",
                                                <<"fonts", fontKey, "files">>, weight)),
                   ConfigValidationError("Font file path must be a string",
                                         <<"fonts", fontKey, "files">>, weight))
        \* for (const weight of weights) { ... }, from entry i on
        RECURSIVE ValidateFiles(_, _, _)
        ValidateFiles(files, i, out) ==
            IF i > Len(files.entries) THEN out
            ELSE ValidateFiles(files, i + 1,
                    FileEntry(files, files.entries[i][1],
                              StringToNumber(files.entries[i][1], FALSE), out))
        \* the four checks, each on the result the one before it left
        Name(out) ==
            PushIf(Falsy(font.name) \/ font.name.k # "str", out,
                   ConfigValidationError("Font must have a \"name\" property", path, <<>>))
        Files(out) ==
            IF Falsy(font.files) \/ font.files.k # "obj"
            THEN PushIf(TRUE, out,
                        ConfigValidationError("Font must have a \"files\" property", path, <<>>))
            ELSE ValidateFiles(font.files, 1,
                    IF Len(font.files.entries) = 0
                    THEN [out EXCEPT !.warnings = Append(@, "No font files specified")]
                    ELSE out)
        Display(out) ==
            PushIf(font.display \notin {"", "undefined"}
                      /\ font.display \notin {"auto", "block", "swap", "fallback", "optional"},
                   out,
                   ConfigValidationError("Invalid font-display value",
                                         <<"fonts", fontKey, "display">>, <<>>))
        Fallback(out) ==
            IF Falsy(font.fallback) THEN out
            ELSE IF font.fallback.k # "obj"
            THEN PushIf(TRUE, out,
                        ConfigValidationError("Fallback must be an object",
                                              <<"fonts", fontKey, "fallback">>, <<>>))
            ELSE PushIf(Falsy(font.fallback.font), out,
                        ConfigValidationError("Fallback must have a \"font\" property",
                                              <<"fonts", fontKey, "fallback">>, <<>>))
    IN  IF font.k \in {"null", "undef"} THEN Throw("TypeError")
        ELSE Return(Fallback(Display(Files(Name(result)))))

\* validateScale(scale, result)
validateScale(scale, result) ==
    LET \* for (const [key, value] of Object.entries(scale.values)) of validateScale
        RECURSIVE ValidateFixedValues(_, _, _)
        ValidateFixedValues(entries, i, out) ==
            IF i > Len(entries) THEN out
            ELSE ValidateFixedValues(entries, i + 1,
                    PushIf(~IsNumber(entries[i][2]) \/ JLeq(entries[i][2], N(0)), out,
                           ConfigValidationError("Scale value must be a positive number",
                                                 <<"scale", "values", entries[i][1]>>, <<>>)))
        NotPositive(v) == ~IsNumber(v) \/ JLeq(v, N(0))
        NoObject(v) == Falsy(v) \/ v.k # "obj"
        Error(message, segments) == ConfigValidationError(message, segments, <<>>)
    IN  CASE scale.type = "modular" ->
                PushIf(NotPositive(scale.ratio),
                       PushIf(NotPositive(scale.base), result,
                              Error("Modular scale requires a positive \"base\" value",
                                    <<"scale", "base">>)),
                       Error("Modular scale requires a positive \"ratio\" value",
                             <<"scale", "ratio">>))
          [] scale.type = "fixed" ->
                IF NoObject(scale.values)
                THEN PushIf(TRUE, result,
                            Error("Fixed scale requires a \"values\" object",
                                  <<"scale", "values">>))
                ELSE ValidateFixedValues(scale.values.entries, 1, result)
          [] scale.type = "fluid" ->
                PushIf(JLeq(scale.maxViewport, scale.minViewport),
                       PushIf(NotPositive(scale.maxViewport),
                              PushIf(NotPositive(scale.minViewport), result,
                                     Error("Fluid scale requires positive \"minViewport\" value",
                                           <<"scale", "minViewport">>)),
                              Error("Fluid scale requires positive \"maxViewport\" value",
                                    <<"scale", "maxViewport">>)),
                       Error("minViewport must be less than maxViewport", <<"scale">>))
          [] scale.type = "custom" ->
                PushIf(NoObject(scale.values), result,
                       Error("Custom scale requires a \"values\" object",
                             <<"scale", "values">>))
          [] OTHER ->
                PushIf(TRUE, result, Error("Invalid scale type", <<"scale", "type">>))

\* validateVariant(variantKey, variant, fontKeys, result): the result after
\* it, or a TypeError when variant is null or undefined.
validateVariant(variantKey, variant, fontKeys, result) ==
    LET Error(message, segments) == ConfigValidationError(message, segments, <<>>)
        \* the four checks, each on the result the one before it left
        Size(out) ==
            PushIf(variant.fontSize.k = "undef", out,
                   Error("Variant must have a \"fontSize\" property",
                         <<"variants", variantKey>>))
        Weight(out) ==
            PushIf(variant.fontWeight.k # "undef"
                      /\ ~(variant.fontWeight.k = "num" /\ variant.fontWeight.d = 1
                           /\ variant.fontWeight.n \in VALID_WEIGHTS),
                   out,
                   Error("Invalid font weight", <<"variants", variantKey, "fontWeight">>))
        Family(out) ==
            IF variant.fontFamily \notin {"", "undefined"}
               /\ variant.fontFamily \notin fontKeys
            THEN [out EXCEPT !.warnings =
                     Append(@, "fontFamily is not defined in fonts config")]
            ELSE out
        LineHeight(out) ==
            PushIf(variant.lineHeight.k # "undef" /\ IsNumber(variant.lineHeight)
                      /\ JLeq(variant.lineHeight, N(0)),
                   out,
                   Error("lineHeight must be positive", <<"variants", variantKey, "lineHeight">>))
    IN  IF variant.k \in {"null", "undef"} THEN Throw("TypeError")
        ELSE Return(LineHeight(Family(Weight(Size(result)))))

\* validateConfig(config)
validateConfig(config) ==
    LET \* for (const [key, x] of Object.entries(map)) validate(key, x, result):
        \* the call on each entry in turn; an exception ends the loop.
        RECURSIVE ValidateEach(_, _, _, _, _)
        ValidateEach(what, entries, i, keys, out) ==
            IF out.threw \/ i > Len(entries) THEN out
            ELSE ValidateEach(what, entries, i + 1, keys,
                    IF what = "font" THEN validateFont(entries[i][1], entries[i][2], out.value)
                    ELSE validateVariant(entries[i][1], entries[i][2], keys, out.value))
        Error(message, segments) == ConfigValidationError(message, segments, <<>>)
        fontKeys == IF Falsy(config.fonts) THEN {}
                    ELSE {config.fonts.entries[i][1] : i \in 1..Len(config.fonts.entries)}
        \* the three parts and the valid flag, each on the outcome (a result,
        \* or an exception) the part before it left
        Fonts(result) ==
            IF Falsy(config.fonts) \/ config.fonts.k # "obj"
            THEN Return(PushIf(TRUE, result,
                               Error("Configuration must have a \"fonts\" property",
                                     <<"fonts">>)))
            ELSE ValidateEach("font", config.fonts.entries, 1, fontKeys,
                    Return(IF fontKeys = {}
                           THEN [result EXCEPT !.warnings = Append(@, "No fonts defined")]
                           ELSE result))
        Scale(out) ==
            IF out.threw THEN out
            ELSE IF Falsy(config.scale)
            THEN Return(PushIf(TRUE, out.value,
                               Error("Configuration must have a \"scale\" property",
                                     <<"scale">>)))
            ELSE Return(validateScale(config.scale, out.value))
        Variants(out) ==
            IF out.threw \/ Falsy(config.variants) THEN out
            ELSE ValidateEach("variant", config.variants.entries, 1, fontKeys, out)
        SetValid(out) ==
            IF out.threw THEN out
            ELSE Return([out.value EXCEPT !.valid = Len(out.value.errors) = 0])
    IN  SetValid(Variants(Scale(Fonts([valid |-> TRUE, errors |-> <<>>, warnings |-> <<>>]))))

\* assertValidConfig(config): returns undefined, throws an Error for a
\* result that is not valid, and lets the exception of validateConfig pass.
assertValidConfig(config) ==
    LET result == validateConfig(config)
    IN  IF result.threw THEN result
        ELSE IF ~result.value.valid THEN Throw("Error")
        ELSE Return(Undefined)

-----------------------------------------------------------------------------
(* createFixedScaleFromArray.  The keys of the values map are the          *)
(* characters of the names, in the order the object got them.              *)

\* The longest array createFixedScaleFromArray is called with.
MaxValues == 11

\* createFixedScaleFromArray(values)
createFixedScaleFromArray(values) ==
    LET names == << <<"x", "s">>, <<"s", "m">>, <<"b", "a", "s", "e">>, <<"l", "g">>,
                    <<"x", "l">>, <<"2", "x", "l">>, <<"3", "x", "l">>, <<"4", "x", "l">>,
                    <<"5", "x", "l">>, <<"6", "x", "l">> >>
        Char == <<"0", "1", "2", "3", "4", "5", "6", "7", "8", "9">>
        \* `${n}` for a natural number n
        RECURSIVE String(_)
        String(n) == IF n < 10 THEN <<Char[n + 1]>>
                     ELSE Append(String(n \div 10), Char[(n % 10) + 1])
        \* scaleValues[key] = value: a new key goes last, a key the object
        \* has keeps its place and takes the value
        Assign(scaleValues, key, value) ==
            IF \E j \in 1..Len(scaleValues) : scaleValues[j][1] = key
            THEN [j \in 1..Len(scaleValues) |->
                     IF scaleValues[j][1] = key THEN <<key, value>> ELSE scaleValues[j]]
            ELSE Append(scaleValues, <<key, value>>)
        \* values.forEach((value, index) => ...), from index on
        RECURSIVE ForEach(_, _)
        ForEach(index, scaleValues) ==
            IF index >= Len(values) THEN scaleValues
            ELSE ForEach(index + 1,
                    Assign(scaleValues,
                           IF index < Len(names) THEN names[index + 1]
                           ELSE String(index - 4) \o <<"x", "l">>,
                           values[index + 1]))
    IN  [type |-> "fixed", values |-> Obj(ForEach(0, <<>>))]

-----------------------------------------------------------------------------
(* The calls of the variant resolver, the validator and                    *)
(* createFixedScaleFromArray.                                              *)

\* The calls made.  resolveVariant: computed scales with and without base
\* (numbers, a fluid scale of strings, a custom scale whose base is
\* undefined); a fontSize that is a key of the scale, a numeral, a numeral
\* followed by text, no numeral at all, the name of an inherited property,
\* a number, or missing; a fontFamily that names a font with or without a
\* fallback, names no font, or is missing.  validateConfig and
\* assertValidConfig: configurations whose fonts, scale and variants are
\* well formed, missing, or malformed in the ways the validator tests for
\* (weight keys that are no valid weight, paths that are no string, fields
\* missing or of the wrong type), and a font or variant that is null.
\* createFixedScaleFromArray: arrays of up to MaxValues numbers, all equal,
\* ascending or descending.
ConfigInit ==
    LET base == <<"b", "a", "s", "e">>
        lg   == <<"l", "g">>
        xxl  == <<"2", "x", "l">>
        Scales ==
            {(base :> N(16)) @@ (lg :> N(18)) @@ (xxl :> N(24)),
             (lg :> N(18)),
             (base :> Text) @@ (lg :> Text),
             (base :> Undefined) @@ (lg :> Q(35, 2))}
        FontSizes ==
            {[k |-> "key", key |-> c] :
                c \in {base, lg, xxl, <<"3", "x", "l">>, <<"1", "8">>,
                       <<"1", "2", ".", "5", "p", "x">>, <<" ", "2", "0">>,
                       <<"-", "4">>, <<"1", "e", "2">>, <<"h", "u", "g", "e">>, <<>>,
                       <<"t", "o", "S", "t", "r", "i", "n", "g">>}}
            \cup {N(16), Q(35, 2), N(0)}
        NoFallback == [k |-> "undef"]
        Fallback(font) == [k |-> "obj", font |-> font]
        Fonts ==
            [heading |-> [name |-> <<"I", "n", "t", "e", "r">>,
                          fallback |-> Fallback(<<"A", "r", "i", "a", "l">>)],
             body    |-> [name |-> <<"S", "o", "u", "r", "c", "e", " ", "S", "e", "r", "i", "f">>,
                          fallback |-> NoFallback],
             ui      |-> [name |-> <<"O", "p", "e", "n", " ", "S", "a", "n", "s">>,
                          fallback |-> NoFallback],
             alt     |-> [name |-> <<"P", "T", " ", "S", "a", "n", "s", " ", "S", "e", "r", "i", "f">>,
                          fallback |-> Fallback(<<"G", "e", "o", "r", "g", "i", "a">>)],
             mono    |-> [name |-> <<"F", "i", "r", "a", " ", "C", "o", "d", "e">>,
                          fallback |-> Fallback(<<"C", "o", "u", "r", "i", "e", "r", " ", "N", "e", "w">>)]]
        Variants ==
            {[fontSize |-> size, fontFamily |-> family, fontWeight |-> other[1],
              lineHeight |-> other[2], letterSpacing |-> other[3],
              textTransform |-> other[4], fontStyle |-> other[5]] :
                size \in FontSizes,
                family \in DOMAIN Fonts \cup {"display", "", "undefined"},
                other \in {<<Undefined, Undefined, "undefined", "undefined", "undefined">>,
                           <<N(700), Q(3, 2), "tight", "uppercase", "italic">>,
                           <<N(400), N(0), "0.1em", "", "normal">>}}
        Str(s) == [k |-> "str", s |-> s]
        Files(entries) == [k |-> "obj", entries |-> entries]
        Font(name, files, display, fallback) ==
            [k |-> "obj", name |-> name, files |-> files, display |-> display,
             fallback |-> fallback]
        woff == Str(<<"x", ".", "w", "o", "f", "f", "2">>)
        Inter == Str(<<"I", "n", "t", "e", "r">>)
        Arial == [k |-> "obj", font |-> Str(<<"A", "r", "i", "a", "l">>)]
        Regular == <<<<"4", "0", "0">>, woff>>
        GoodFont == Font(Inter, Files(<<Regular, <<<<"7", "0", "0">>, woff>>>>), "swap", Arial)
        FileMaps ==
            {Files(<<>>), Files(<<Regular>>),
             Files(<<<<<<"4", "5", "0">>, woff>>>>),
             Files(<<<<<<"b", "o", "l", "d">>, woff>>>>),
             Files(<<<<<<"0", "4", "0", "0">>, woff>>>>),
             Files(<<Regular, <<<<"4", "5", "0", ".", "5">>, woff>>>>),
             Files(<<Regular, <<<<"4", "5", "0">>, woff>>, <<<<"4", "5", "0", ".", "5">>, woff>>>>),
             Files(<<Regular, <<<<"9", "5", "0">>, N(16)>>>>),
             Str(<<"x">>), Undefined}
        FontDefinitions ==
            {Font(Inter, f, "undefined", Undefined) : f \in FileMaps}
            \cup {GoodFont, [k |-> "null"],
                  Font(Undefined, Files(<<Regular>>), "bogus", Str(<<"A", "r", "i", "a", "l">>)),
                  Font(Str(<<>>), Files(<<Regular>>), "auto", [k |-> "obj", font |-> Undefined])}
        FontsConfigs ==
            {Undefined, Obj(<<>>)}
            \cup {Obj(<<<<"heading", f>>>>) : f \in FontDefinitions}
            \cup {Obj(<<<<"heading", GoodFont>>, <<"body", f>>>>) : f \in FontDefinitions}
        ScaleObject(type, fields) == [k |-> "obj"] @@ ScaleConfig(type, fields)
        ScaleConfigs ==
            {Undefined,
             ScaleObject("modular", [base |-> N(16), ratio |-> Q(5, 4)]),
             ScaleObject("modular", [base |-> N(0)]),
             ScaleObject("fixed", [values |-> Obj(<<<<"base", N(16)>>, <<"lg", N(18)>>>>)]),
             ScaleObject("fixed", [values |-> Obj(<<<<"base", N(0)>>, <<"lg", Text>>>>)]),
             ScaleObject("fixed", [base |-> N(16)]),
             ScaleObject("fluid", [minViewport |-> N(320), maxViewport |-> N(1280)]),
             ScaleObject("fluid", [minViewport |-> N(1280), maxViewport |-> N(1280)]),
             ScaleObject("fluid", [base |-> N(16)]),
             ScaleObject("custom", [values |-> Obj(<<<<"base", Text>>>>)]),
             ScaleObject("custom", [base |-> N(16)]),
             ScaleObject("bogus", [base |-> N(16)]),
             ScaleObject("undefined", [base |-> N(16)])}
        Variant(fontSize, fontWeight, fontFamily, lineHeight) ==
            [k |-> "obj", fontSize |-> fontSize, fontWeight |-> fontWeight,
             fontFamily |-> fontFamily, lineHeight |-> lineHeight]
        VariantsConfigs ==
            {Undefined, Obj(<<>>),
             Obj(<<<<"h1", Variant([k |-> "key", key |-> base], N(700), "heading", Q(3, 2))>>>>),
             Obj(<<<<"h1", Variant(N(16), Undefined, "display", Undefined)>>>>),
             Obj(<<<<"h1", Variant(Undefined, N(450), "undefined", N(0))>>,
                   <<"h2", Variant(N(16), N(400), "body", Str(<<"1", ".", "5">>))>>>>),
             Obj(<<<<"h1", [k |-> "null"]>>>>)}
        Arrays ==
            {[i \in 1..n |-> v] : n \in 0..MaxValues, v \in {N(16), Q(25, 2)}}
            \cup {[i \in 1..n |-> N(a + 2 * i)] : n \in 0..MaxValues, a \in 10..16}
            \cup {[i \in 1..n |-> N(a - 2 * i)] : n \in 0..MaxValues, a \in 60..64}
        TextnodeConfigs ==
            {[fonts |-> f, scale |-> s, variants |-> v] :
                f \in FontsConfigs, s \in ScaleConfigs, v \in VariantsConfigs}
    IN
    /\ ProviderAtRest
    /\ \/ calc \in {Call("resolveVariant", [variant |-> v, scale |-> s, fonts |-> Fonts]) :
                       v \in Variants, s \in Scales}
       \/ calc \in {Call("validateConfig", [config |-> c]) : c \in TextnodeConfigs}
       \/ calc \in {Call("assertValidConfig", [config |-> c]) : c \in TextnodeConfigs}
       \/ calc \in {Call("createFixedScaleFromArray", [values |-> a]) : a \in Arrays}

ResolveVariant ==
    /\ Ready("resolveVariant")
    /\ Finish(Return(resolveVariant(calc.args.variant, calc.args.scale, calc.args.fonts)))

ValidateConfig ==
    /\ Ready("validateConfig")
    /\ Finish(validateConfig(calc.args.config))

AssertValidConfig ==
    /\ Ready("assertValidConfig")
    /\ Finish(assertValidConfig(calc.args.config))

CreateFixedScaleFromArray ==
    /\ Ready("createFixedScaleFromArray")
    /\ Finish(Return(createFixedScaleFromArray(calc.args.values)))

ConfigNext ==
    \/ ResolveVariant
    \/ ValidateConfig
    \/ AssertValidConfig
    \/ CreateFixedScaleFromArray

ConfigSpec == ConfigInit /\ [][ConfigNext]_vars

-----------------------------------------------------------------------------
(* Claims about the variant resolver.                                      *)

\* Did resolveVariant write the warning of getScaleValue?
ScaleWarning == \E i \in 1..Len(calc.out.value.warnings) :
                    calc.out.value.warnings[i] = "scale key not found"

\* scale.base, or 16 when the scale has no base
BaseOr16(scale) ==
    LET base == <<"b", "a", "s", "e">>
    IN  IF base \in DOMAIN scale /\ scale[base].k \notin {"undef", "null"}
        THEN scale[base] ELSE N(16)

\* C21: resolveVariant resolves a string fontSize in this order: the scale
\* value under exactly that key; else the number obtained by numerically
\* parsing the key; else scale.base, or 16 when the scale has no base.  A
\* warning is emitted on every path other than the exact key match, and a
\* numeric fontSize is emitted as that number of px.
C21_FontSizeResolutionWarns ==
    Returned("resolveVariant") =>
        LET fontSize == calc.args.variant.fontSize
            scale    == calc.args.scale
            emitted  == calc.out.value.styles.fontSize
            parsed   == StringToNumber(fontSize.key, TRUE)
        IN  IF fontSize.k = "key"
            THEN IF fontSize.key \in DOMAIN scale
                 THEN emitted = scaleValueToCSS(scale[fontSize.key], "px") /\ ~ScaleWarning
                 ELSE IF parsed.k # "nan"
                 THEN emitted = [number |-> parsed, unit |-> "px"] /\ ScaleWarning
                 ELSE emitted = scaleValueToCSS(BaseOr16(scale), "px") /\ ScaleWarning
            ELSE IsNumber(fontSize) => emitted = [number |-> fontSize, unit |-> "px"]

\* The generic family of the name heuristic: contains mono/code ->
\* monospace; contains serif but not sans -> serif; else sans-serif.
GenericByHeuristic(name) ==
    LET Has(part) == includes(toLowerCase(name), part)
    IN  IF Has(<<"m", "o", "n", "o">>) \/ Has(<<"c", "o", "d", "e">>)
        THEN <<"m", "o", "n", "o", "s", "p", "a", "c", "e">>
        ELSE IF Has(<<"s", "e", "r", "i", "f">>) /\ ~Has(<<"s", "a", "n", "s">>)
        THEN <<"s", "e", "r", "i", "f">>
        ELSE <<"s", "a", "n", "s", "-", "s", "e", "r", "i", "f">>

\* The names of the resolved font-family list, in order.
FamilyList(list) == [i \in 1..Len(list.parts) |-> list.parts[i].name]

FallbackName(name) == name \o <<" ", "F", "a", "l", "l", "b", "a", "c", "k">>

\* C22 (as stated): for every variant whose fontFamily key names a
\* configured font the resolved list has exactly three entries: the font
\* name, '<name> Fallback', and the configured fallback font or, when no
\* fallback is configured, the generic family of the name heuristic.
C22_FamilyListHasThreeEntries ==
    (Returned("resolveVariant") /\ calc.args.variant.fontFamily \in DOMAIN calc.args.fonts) =>
        LET font == calc.args.fonts[calc.args.variant.fontFamily]
            list == calc.out.value.styles.fontFamily
        IN  /\ list.k = "list"
            /\ FamilyList(list) =
                  <<font.name, FallbackName(font.name),
                    IF font.fallback.k # "undef" THEN font.fallback.font
                    ELSE GenericByHeuristic(font.name)>>

\* C22 (amended): for every variant whose fontFamily key names a configured
\* font the resolved list is, in this order: the font name; only when a
\* fallback is configured, '<name> Fallback' and the configured fallback
\* font; and always last the generic family of the name heuristic (four
\* entries with a fallback, two without).  For font Inter with fallback
\* Arial it is Inter, Inter Fallback, Arial, sans-serif.
C22_FamilyListEndsWithGeneric ==
    (Returned("resolveVariant") /\ calc.args.variant.fontFamily \in DOMAIN calc.args.fonts) =>
        LET font == calc.args.fonts[calc.args.variant.fontFamily]
            list == calc.out.value.styles.fontFamily
        IN  /\ list.k = "list"
            /\ FamilyList(list) =
                  <<font.name>>
                  \o (IF font.fallback.k # "undef"
                      THEN <<FallbackName(font.name), font.fallback.font>> ELSE <<>>)
                  \o <<GenericByHeuristic(font.name)>>
            /\ font.name = <<"I", "n", "t", "e", "r">>
                  /\ font.fallback = [k |-> "obj", font |-> <<"A", "r", "i", "a", "l">>]
               => FamilyList(list) =
                     <<<<"I", "n", "t", "e", "r">>,
                       <<"I", "n", "t", "e", "r", " ", "F", "a", "l", "l", "b", "a", "c", "k">>,
                       <<"A", "r", "i", "a", "l">>,
                       <<"s", "a", "n", "s", "-", "s", "e", "r", "i", "f">>>>

\* Font Inter with fallback Arial resolved to a list of four entries.
C22_Witness ==
    /\ Returned("resolveVariant")
    /\ calc.args.variant.fontFamily = "heading"
    /\ calc.out.value.styles.fontFamily.k = "list"
    /\ Len(calc.out.value.styles.fontFamily.parts) = 4
    /\ calc.out.value.styles.fontFamily.parts[2] =
          [name |-> <<"I", "n", "t", "e", "r", " ", "F", "a", "l", "l", "b", "a", "c", "k">>,
           quoted |-> TRUE]


-----------------------------------------------------------------------------
(* Claims about the config validator.                                      *)

\* The weight keys that are one of 100, 200, ..., 900.
ValidWeightKeys ==
    {<<c, "0", "0">> : c \in {"1", "2", "3", "4", "5", "6", "7", "8", "9"}}

\* The number of errors of the returned result whose path is
\* fonts.<fontKey>.files.<weight>.
ErrorsAt(fontKey, weight) ==
    Cardinality({i \in 1..Len(calc.out.value.errors) :
                    calc.out.value.errors[i].path
                        = [segments |-> <<"fonts", fontKey, "files">>, weight |-> weight]})

\* The entries of config.fonts that are fonts with a files object, as
\* pairs <<index of the font, index of the files entry>>.
FilesEntries ==
    LET fonts == calc.args.config.fonts
    IN  IF fonts.k # "obj" THEN {}
        ELSE {e \in (1..Len(fonts.entries)) \X (1..3) :
                /\ fonts.entries[e[1]][2].k = "obj"
                /\ fonts.entries[e[1]][2].files.k = "obj"
                /\ e[2] <= Len(fonts.entries[e[1]][2].files.entries)}

FilesEntry(e) == calc.args.config.fonts.entries[e[1]][2].files.entries[e[2]]

\* C23: every files entry whose weight key is not one of 100..900 and whose
\* path is a string produces exactly one validation error, with path
\* fonts.<fontKey>.files.<weightKey>.
C23_OneErrorPerInvalidWeight ==
    Returned("validateConfig") =>
        \A e \in FilesEntries :
            (FilesEntry(e)[1] \notin ValidWeightKeys /\ FilesEntry(e)[2].k = "str")
                => ErrorsAt(calc.args.config.fonts.entries[e[1]][1], FilesEntry(e)[1]) = 1


\* C24: validateConfig always returns its result, with valid = TRUE exactly
\* when the error list is empty, whatever the warnings; assertValidConfig
\* throws exactly when validateConfig reports at least one error.
C24_ValidateReturnsAssertThrowsOnErrors ==
    /\ (calc.pc # "ready" /\ calc.fn = "validateConfig") =>
          /\ ~calc.out.threw
          /\ calc.out.value.valid <=> (calc.out.value.errors = <<>>)
    /\ (calc.pc # "ready" /\ calc.fn = "assertValidConfig") =>
          (calc.out.threw <=>
              /\ ~validateConfig(calc.args.config).threw
              /\ validateConfig(calc.args.config).value.errors # <<>>)


-----------------------------------------------------------------------------
(* Claims about createFixedScaleFromArray.                                 *)

\* The first ten keys, in order.
FixedArrayNames ==
    << <<"x", "s">>, <<"s", "m">>, <<"b", "a", "s", "e">>, <<"l", "g">>, <<"x", "l">>,
       <<"2", "x", "l">>, <<"3", "x", "l">>, <<"4", "x", "l">>, <<"5", "x", "l">>,
       <<"6", "x", "l">> >>

\* C30: createFixedScaleFromArray(values) gives every element its own key:
\* the values map has exactly values.length entries with pairwise distinct
\* keys, the i-th entry holds the i-th value, and the first ten keys are
\* xs, sm, base, lg, xl, 2xl, ..., 6xl.
C30_EveryElementHasItsOwnKey ==
    Returned("createFixedScaleFromArray") =>
        LET values  == calc.args.values
            entries == calc.out.value.values.entries
        IN  /\ Len(entries) = Len(values)
            /\ \A i, j \in 1..Len(entries) : entries[i][1] = entries[j][1] => i = j
            /\ \A i \in 1..Len(entries) :
                  /\ entries[i][2] = values[i]
                  /\ i <= Len(FixedArrayNames) => entries[i][1] = FixedArrayNames[i]


-----------------------------------------------------------------------------
(* Claims about the core loadFonts.                                        *)

\* What holds of a loadFonts invocation at every moment: a key has a result
\* entry of faces exactly when it was pushed to loaded, loaded holds no key
\* twice, and onProgress was invoked once per loaded key, the i-th time
\* with the first i loaded keys, so never with a key that failed.
LoadFontsBookkeeping(call) ==
    /\ DOMAIN call.result = call.fonts
    /\ \A k \in call.fonts :
          call.result[k] = "faces" <=> \E i \in 1..Len(call.loaded) : call.loaded[i] = k
    /\ \A i, j \in 1..Len(call.loaded) : call.loaded[i] = call.loaded[j] => i = j
    /\ call.origin = "auto" =>
          /\ Len(call.progress) = Len(call.loaded)
          /\ \A i \in 1..Len(call.progress) :
                call.progress[i] = SubSeq(call.loaded, 1, i)
    /\ call.origin # "auto" => call.progress = <<>>

\* C25: loadFonts starts the load of every key without waiting for another
\* key (a pending key can settle whatever the state of the others), never
\* rejects, resolves only when every key has a result entry (faces, or the
\* empty list of a failed key), and invokes onProgress exactly once per
\* loaded key with the keys loaded so far, never for a failed key.
C25_LoadFontsConcurrentAndComplete ==
    [][/\ \A call \in InFlight :
             /\ LoadFontsBookkeeping(call)
             /\ \A k \in call.fonts :
                   call.result[k] = "none" =>
                       /\ ENABLED FontLoaded(call, k)
                       /\ browser => ENABLED FontFailed(call, k)
             /\ calls' = calls (-) SetToBag({call}) =>
                   /\ \A k \in call.fonts : call.result[k] \in {"faces", "empty"}
                   /\ loadFontsOutcome(call) = "fulfilled"
       /\ \A call \in BagToSet(calls') : LoadFontsBookkeeping(call)]_vars

\* A settled loadFonts invocation with a callback in which one key failed
\* and one key loaded.
C25_Witness ==
    \E call \in InFlight :
        /\ call.origin = "auto"
        /\ \E k \in call.fonts : call.result[k] = "empty"
        /\ Len(call.loaded) >= 1
        /\ call.progress = <<call.loaded>>
        /\ AllKeysSettled(call)


-----------------------------------------------------------------------------
(* The style sink on its own: sequences of injectCSS(css, id) and          *)
(* appendCSS(css, id) calls on one document.  calc keeps the style         *)
(* elements the document started with and the calls made so far.           *)

\* The longest sequence of injectCSS / appendCSS calls.
MaxStyleCalls == 4

\* The ids the calls pass: the provider's, another one, and none.
StyleIds == {styleId, "other", ""}

\* The document starts without style element, or with the (empty) style
\* element of the provider's id already in the page.
StyleInit ==
    /\ browser \in BOOLEAN
    /\ props = DefaultProps
    /\ mounted = FALSE
    /\ fontStates = [k \in FontKeys |-> defaultFontState]
    /\ view = fontStates
    /\ allFontsState = AllFontsStateOf(fontStates)
    /\ requestedFonts = {}
    /\ injectedFontsRef = {}
    /\ appendCount = [k \in FontKeys |-> 0]
    /\ style \in {NoStyle, <<[id |-> styleId, text |-> <<>>]>>}
    /\ preloadLinks = {}
    /\ calls = EmptyBag
    /\ wf = WfIdle
    /\ calc = [initial |-> style, log |-> <<>>]

\* A call injectCSS(css, id)
InjectCSS(css, id) ==
    /\ Len(calc.log) < MaxStyleCalls
    /\ style' = injectCSS(style, css, id)
    /\ calc' = [calc EXCEPT !.log = Append(@, [fn |-> "injectCSS", css |-> css, id |-> id])]
    /\ UNCHANGED <<browser, props, mounted, fontStates, view, allFontsState,
                   requestedFonts, injectedFontsRef, appendCount, preloadLinks,
                   calls, wf>>

\* A call appendCSS(css, id)
AppendCSS(css, id) ==
    /\ Len(calc.log) < MaxStyleCalls
    /\ style' = appendCSS(style, css, id)
    /\ calc' = [calc EXCEPT !.log = Append(@, [fn |-> "appendCSS", css |-> css, id |-> id])]
    /\ UNCHANGED <<browser, props, mounted, fontStates, view, allFontsState,
                   requestedFonts, injectedFontsRef, appendCount, preloadLinks,
                   calls, wf>>

\* The css strings passed are the blocks of the font keys.
StyleNext ==
    \/ \E k \in FontKeys, id \in StyleIds : InjectCSS(generateSingleFontCSS(k), id)
    \/ \E k \in FontKeys, id \in StyleIds : AppendCSS(generateSingleFontCSS(k), id)

StyleSpec == StyleInit /\ [][StyleNext]_vars


-----------------------------------------------------------------------------
(* Claims about the style sink.                                            *)

\* The elements of head that carry the id.
ElementsWithId(head, id) == {i \in 1..Len(head) : head[i].id = id}

\* The calls of the log that name the id, as indices in call order.
CallsWithId(id) == {i \in 1..Len(calc.log) : calc.log[i].id = id}

\* The last call with the id that set the whole text: an injectCSS, or the
\* call that created the element; 0 when the element was in the page from
\* the start and no injectCSS named it.
LastWholeText(id) ==
    LET whole == {i \in CallsWithId(id) :
                    \/ calc.log[i].fn = "injectCSS"
                    \/ /\ ElementsWithId(calc.initial, id) = {}
                       /\ \A j \in CallsWithId(id) : i <= j}
    IN  IF whole = {} THEN 0 ELSE CHOOSE i \in whole : \A j \in whole : j <= i

\* The blocks of the appendCSS calls with the id after call number from, in
\* call order, each after a separator.
RECURSIVE BlocksAfter(_, _)
BlocksAfter(id, from) ==
    IF from >= Len(calc.log) THEN <<>>
    ELSE (IF calc.log[from + 1].id = id THEN <<Sep>> \o calc.log[from + 1].css ELSE <<>>)
         \o BlocksAfter(id, from + 1)

\* C26: after any sequence of injectCSS and appendCSS calls there is at
\* most one style element with a given id, and its text is the text of the
\* last injectCSS (or of the call that created the element, or what the
\* element held at the start) followed by the block of every later
\* appendCSS with that id, in call order: injectCSS replaces the whole
\* text, appendCSS keeps it and adds its block after it.
C26_OneElementBlocksInCallOrder ==
    /\ ~browser => style = calc.initial
    /\ browser =>
          \A id \in StyleIds \ {""} :
              /\ Cardinality(ElementsWithId(style, id)) <= 1
              /\ (ElementsWithId(style, id) = {}) <=>
                    (ElementsWithId(calc.initial, id) = {} /\ CallsWithId(id) = {})
              /\ ElementsWithId(style, id) # {} =>
                    style[getElementById(style, id)].text =
                        (IF LastWholeText(id) = 0
                         THEN calc.initial[getElementById(calc.initial, id)].text
                         ELSE calc.log[LastWholeText(id)].css)
                        \o BlocksAfter(id, LastWholeText(id))

\* Two blocks appended after an injectCSS, then on a second id an element
\* made by appendCSS: the first element holds the three blocks in order.
C26_Witness ==
    /\ browser
    /\ Len(calc.log) = 4
    /\ calc.log[1] = [fn |-> "injectCSS", css |-> <<"a">>, id |-> styleId]
    /\ calc.log[2].fn = "appendCSS" /\ calc.log[2].id = styleId
    /\ calc.log[3].fn = "appendCSS" /\ calc.log[3].id = styleId
    /\ calc.log[2].css # calc.log[3].css
    /\ calc.log[4].id = "other"
    /\ Cardinality(ElementsWithId(style, styleId)) = 1
    /\ Len(StyleText(style)) = 5


-----------------------------------------------------------------------------
(* Part I, continued: the mount-time load, the aggregate flags, and lazy   *)
(* mode's CSS.                                                             *)

\* C27: after the mount-time auto-load has started, once every load has
\* resolved or rejected (no loadFonts invocation is in flight), no font key
\* has loading = true.
C27_NoKeyLoadingAfterAutoLoadSettled ==
    (mounted /\ MountLoads /\ calls = EmptyBag)
        => \A k \in FontKeys : ~fontStates[k].loading


\* C28: allLoaded and layoutStable have the same value in every reachable
\* state, in the aggregate of the last render and in the aggregate of the
\* latest store, because no key counts as loaded and as loading.
C28_AllLoadedIsLayoutStable ==
    /\ allFontsState.allLoaded <=> allFontsState.layoutStable
    /\ AllFontsStateOf(fontStates).allLoaded <=> AllFontsStateOf(fontStates).layoutStable
    /\ \A k \in FontKeys :
          ~(\E i \in 1..Len(allFontsState.loadedFonts) : allFontsState.loadedFonts[i] = k
            /\ \E j \in 1..Len(allFontsState.loadingFonts) : allFontsState.loadingFonts[j] = k)

\* C28 witness: every key is loaded and rendered so, both flags are true,
\* and the keys had been loading before (their loads have settled).
C28_Witness ==
    /\ mounted
    /\ view = fontStates
    /\ \A k \in FontKeys : fontStates[k].loaded
    /\ allFontsState.allLoaded /\ allFontsState.layoutStable
    /\ Len(allFontsState.loadingFonts) = 0
    /\ calls = EmptyBag


\* C29: in lazy mode, in a browser with style injection enabled, a font key
\* that is loading or loaded is in the injected set and its CSS is in the
\* style sink.
C29_LazyCssBeforeLoad ==
    (props.lazyLoad /\ browser /\ props.injectStyles) =>
        \A k \in FontKeys :
            (fontStates[k].loading \/ fontStates[k].loaded)
                => (k \in injectedFontsRef /\ CssIn(k, style))

====
